---- MODULE Spec2Model ----
(***************************************************************************)
(* Scene construction engine of circuit-json-to-gltf.                      *)
(*                                                                         *)
(*   - URL resolution            lib/loaders/resolve-model-url.ts          *)
(*   - STEP loader and its caches, WASM kernel initialisation              *)
(*                               lib/loaders/step.ts                       *)
(*   - scene composer            lib/converters/circuit-to-3d.ts           *)
(*                                                                         *)
(* JavaScript strings are sequences of one-character strings, so that      *)
(* prefix tests, split and concatenation are computed as the code computes *)
(* them.  The empty sequence stands for an absent (undefined) or empty     *)
(* string: the code only ever tests these with truthiness.                 *)
(***************************************************************************)
EXTENDS Integers, Sequences, FiniteSets, TLC

(***************************************************************************)
(* Bounds of the model.                                                    *)
(***************************************************************************)
\* longest cad_component list of a conversion input
MaxCad == 2
\* number of concurrent loadSTEP callers
NumReq == 2
\* kernel initialisations that may be started in one run
MaxInits == 2

(***************************************************************************)
(* Strings.                                                                *)
(***************************************************************************)
Letters ==
  {"a","b","c","d","e","f","g","h","i","j","k","l","m","n","o","p","q","r","s",
   "t","u","v","w","x","y","z","A","B","C","D","E","F","G","H","I","J","K","L",
   "M","N","O","P","Q","R","S","T","U","V","W","X","Y","Z"}

Digits == {"0","1","2","3","4","5","6","7","8","9"}

\* String.prototype.startsWith
StartsWith(s, p) == Len(s) >= Len(p) /\ SubSeq(s, 1, Len(p)) = p

\* String.prototype.endsWith
EndsWith(s, p) == Len(s) >= Len(p) /\ SubSeq(s, Len(s) - Len(p) + 1, Len(s)) = p

\* String.prototype.slice(n) with 0 <= n
SliceFrom(s, n) == SubSeq(s, n + 1, Len(s))

RECURSIVE IndexOfFrom(_, _, _)
\* first position >= i (1-based) of character c in s, 0 when there is none
IndexOfFrom(s, c, i) ==
  IF i > Len(s) THEN 0
  ELSE IF s[i] = c THEN i
  ELSE IndexOfFrom(s, c, i + 1)

\* String.prototype.indexOf for a single character, 1-based, 0 when absent
IndexOf(s, c) == IndexOfFrom(s, c, 1)

RECURSIVE Split(_, _)
\* String.prototype.split(c): the list of the parts between separators
Split(s, c) ==
  LET k == IndexOf(s, c)
  IN  IF k = 0 THEN <<s>>
      ELSE <<SubSeq(s, 1, k - 1)>> \o Split(SubSeq(s, k + 1, Len(s)), c)

RECURSIVE Join(_, _)
\* Array.prototype.join(c)
Join(parts, c) ==
  IF Len(parts) = 0 THEN <<>>
  ELSE IF Len(parts) = 1 THEN parts[1]
  ELSE parts[1] \o <<c>> \o Join(Tail(parts), c)

NODE_MODULES_DIR == <<"n","o","d","e","_","m","o","d","u","l","e","s","/">>

DIST_DIR == <<"d","i","s","t","/">>

TSCI_SCOPE == <<"@","t","s","c","i">>

LATEST_TAG == <<"@","l","a","t","e","s","t">>

FILE_SCHEME == <<"f","i","l","e",":","/","/">>

PACKAGE_FILES_DOWNLOAD ==
  <<"p","a","c","k","a","g","e","_","f","i","l","e","s","/",
    "d","o","w","n","l","o","a","d">>

PARAM_PACKAGE_NAME ==
  <<"?","p","a","c","k","a","g","e","_","n","a","m","e","_","w","i","t","h","_",
    "v","e","r","s","i","o","n","=">>

PARAM_FILE_PATH == <<"&","f","i","l","e","_","p","a","t","h","=">>

\* process.cwd() of a Node runtime
ProcessCwd == <<"/","w">>

(***************************************************************************)
(* resolve-model-url.ts                                                    *)
(***************************************************************************)
RECURSIVE SchemeEnd(_, _)
\* first position >= i whose character is not one of [a-zA-Z\d+.-]
SchemeEnd(s, i) ==
  IF i > Len(s) \/ s[i] \notin (Letters \cup Digits \cup {"+", ".", "-"}) THEN i
  ELSE SchemeEnd(s, i + 1)

\* /^[a-zA-Z][a-zA-Z\d+.-]*:\/\// .test(s)
URL_SCHEME_REGEX(s) ==
  /\ Len(s) >= 1
  /\ s[1] \in Letters
  /\ LET k == SchemeEnd(s, 2)
     IN  k + 2 <= Len(s) /\ SubSeq(s, k, k + 2) = <<":", "/", "/">>

\* /^[A-Za-z]:[\\/]/ .test(s)
WINDOWS_ABSOLUTE_PATH_REGEX(s) ==
  Len(s) >= 3 /\ s[1] \in Letters /\ s[2] = ":" /\ s[3] \in {"\\", "/"}

ensureTrailingSlash(url) == IF EndsWith(url, <<"/">>) THEN url ELSE url \o <<"/">>

\* path.replace(/\\/g, "/")
normalizeWindowsPath(path) ==
  [i \in 1..Len(path) |-> IF path[i] = "\\" THEN "/" ELSE path[i]]

toFileUrlFromAbsolutePath(path) ==
  IF WINDOWS_ABSOLUTE_PATH_REGEX(path)
  THEN FILE_SCHEME \o <<"/">> \o normalizeWindowsPath(path)
  ELSE FILE_SCHEME \o path

\* requestPath.replace(/^(\.\/)?/, ""): a leading "/" is left in place
StripLeadingSlashDot_DotOnly(requestPath) ==
  IF StartsWith(requestPath, <<".", "/">>) THEN SliceFrom(requestPath, 2) ELSE requestPath

\* requestPath.replace(/^\/?(\.\/)?/, "")
StripLeadingSlashDot(requestPath) ==
  LET a == IF StartsWith(requestPath, <<"/">>) THEN SliceFrom(requestPath, 1)
           ELSE requestPath
  IN  IF StartsWith(a, <<".", "/">>) THEN SliceFrom(a, 2) ELSE a

\* the null result of extractPackageInfoFromNodeModulesPath
NullPackageInfo == [isNull |-> TRUE, packageName |-> <<>>, filePath |-> <<>>]

PackageInfoOrNull(packageName, filePath) ==
  IF packageName = <<>> \/ filePath = <<>> THEN NullPackageInfo
  ELSE [isNull |-> FALSE, packageName |-> packageName, filePath |-> filePath]

extractPackageInfoFromNodeModulesPath(requestPath) ==
  LET stripped == StripLeadingSlashDot(requestPath)
  IN  IF ~StartsWith(stripped, NODE_MODULES_DIR) THEN NullPackageInfo
      ELSE
        LET path  == SliceFrom(stripped, Len(NODE_MODULES_DIR))
            parts == Split(path, "/")
        IN  IF StartsWith(path, <<"@">>)
            THEN IF Len(parts) < 3 THEN NullPackageInfo
                 ELSE
                   LET scope      == parts[1]
                       scopedName == parts[2]
                       filePath   == Join(SubSeq(parts, 3, Len(parts)), "/")
                       dotIndex   == IndexOf(scopedName, ".")
                   IN  IF scope = TSCI_SCOPE /\ dotIndex > 0
                       THEN PackageInfoOrNull(
                              <<"@">> \o SubSeq(scopedName, 1, dotIndex - 1)
                                \o <<"/">> \o SliceFrom(scopedName, dotIndex),
                              filePath)
                       ELSE PackageInfoOrNull(scope \o <<"/">> \o scopedName, filePath)
            ELSE IF Len(parts) < 2 THEN NullPackageInfo
                 ELSE PackageInfoOrNull(parts[1], Join(Tail(parts), "/"))

\* a file path that is always given the dist/ prefix
toPackageFilePath_AlwaysPrefixed(filePath) == DIST_DIR \o filePath

toPackageFilePath(filePath) ==
  IF StartsWith(filePath, DIST_DIR) THEN filePath ELSE DIST_DIR \o filePath

\* URLSearchParams serialisation of one character (application/x-www-form-urlencoded)
FormEncodeChar(c) ==
  IF c \in Letters \cup Digits \cup {"*", "-", ".", "_"} THEN <<c>>
  ELSE IF c = " " THEN <<"+">>
  ELSE IF c = "@" THEN <<"%", "4", "0">>
  ELSE IF c = "/" THEN <<"%", "2", "F">>
  ELSE IF c = ":" THEN <<"%", "3", "A">>
  ELSE <<"%", "?", "?">>

RECURSIVE FormEncode(_)
FormEncode(s) ==
  IF s = <<>> THEN <<>> ELSE FormEncodeChar(Head(s)) \o FormEncode(Tail(s))

\* a result of an operation that may throw
Returned(url) == [threw |-> FALSE, url |-> url]

Threw == [threw |-> TRUE, url |-> <<>>]

\* new URL(relative, base).toString() for a base that ends with "/" and a plain
\* relative path (no query, fragment or ".." segment; one leading "./" is
\* removed by the URL parser); a base that is not an absolute URL makes the
\* constructor throw
NewUrl(relative, base) ==
  IF ~URL_SCHEME_REGEX(base) THEN Threw
  ELSE Returned(base \o (IF StartsWith(relative, <<".", "/">>)
                         THEN SliceFrom(relative, 2) ELSE relative))

createPackageFileDownloadUrl(projectBaseUrl, packageName, filePath) ==
  LET baseUrl == NewUrl(PACKAGE_FILES_DOWNLOAD, ensureTrailingSlash(projectBaseUrl))
  IN  IF baseUrl.threw THEN Threw
      ELSE Returned(baseUrl.url
                      \o PARAM_PACKAGE_NAME \o FormEncode(packageName \o LATEST_TAG)
                      \o PARAM_FILE_PATH \o FormEncode(toPackageFilePath(filePath)))

resolveModelUrl(url, projectBaseUrl, nodeRuntime) ==
  LET nodeModulesInfo == extractPackageInfoFromNodeModulesPath(url)
  IN  IF URL_SCHEME_REGEX(url) THEN Returned(url)
      ELSE IF ~nodeModulesInfo.isNull /\ projectBaseUrl # <<>>
      THEN createPackageFileDownloadUrl(projectBaseUrl,
                                        nodeModulesInfo.packageName,
                                        nodeModulesInfo.filePath)
      ELSE IF StartsWith(url, <<"/">>) \/ WINDOWS_ABSOLUTE_PATH_REGEX(url)
      THEN Returned(toFileUrlFromAbsolutePath(url))
      ELSE IF projectBaseUrl # <<>>
      THEN NewUrl(IF StartsWith(url, <<".", "/">>) THEN SliceFrom(url, 2) ELSE url,
                  ensureTrailingSlash(projectBaseUrl))
      ELSE IF nodeRuntime
      THEN NewUrl(url, FILE_SCHEME \o ensureTrailingSlash(normalizeWindowsPath(ProcessCwd)))
      ELSE Returned(url)

(***************************************************************************)
(* Inputs of the loader: model URLs, project bases, auth headers and       *)
(* coordinate transforms.                                                  *)
(***************************************************************************)
\* "m.step"
UrlM == <<"m", ".", "s", "t", "e", "p">>

\* "./m.step": another spelling of the same file
UrlDotM == <<".", "/", "m", ".", "s", "t", "e", "p">>

ModelUrls == {UrlM, UrlDotM}

\* "http://h": a project base and also the origin of the page
BaseH == <<"h", "t", "t", "p", ":", "/", "/", "h">>

\* "b": a project base that is not an absolute URL
BaseBad == <<"b">>

ProjectBases == {<<>>, BaseH, BaseBad}

BrowserOrigins == {<<>>, BaseH}

Header(name, value) == [name |-> name, value |-> value]

\* { a: "1", b: "2" } and the same headers inserted in the other order
AuthAB == <<Header(<<"a">>, <<"1">>), Header(<<"b">>, <<"2">>)>>

AuthBA == <<Header(<<"b">>, <<"2">>), Header(<<"a">>, <<"1">>)>>

\* absent auth headers
NoAuth == <<>>

AuthChoices == {NoAuth, AuthAB, AuthBA}

\* absent transform
NoTransform == "undefined"

\* the coordinate transform presets of COORDINATE_TRANSFORMS used by the composer
TransformPresets ==
  {"Z_UP_TO_Y_UP_USB_FIX", "OBJ_Z_UP_TO_Y_UP", "FOOTPRINTER_MODEL_TRANSFORM"}

\* a transform supplied by the caller
CustomTransform == "custom"

\* JSON.stringify(transform ?? {}): "{}" for an absent transform, else the
\* serialisation of the configuration, which is different for different
\* configurations
JsonStringify(transform) ==
  IF transform = NoTransform THEN <<"{", "}">> ELSE <<"{", transform, "}">>

(***************************************************************************)
(* step.ts: kernel cache key                                               *)
(***************************************************************************)
\* left.localeCompare(right) < 0 for header names made of lower-case letters
RECURSIVE LocaleLess(_, _)
LocaleLess(left, right) ==
  IF right = <<>> THEN FALSE
  ELSE IF left = <<>> THEN TRUE
  ELSE IF Head(left) = Head(right) THEN LocaleLess(Tail(left), Tail(right))
  ELSE \E i, j \in 1..26 :
         /\ <<"a","b","c","d","e","f","g","h","i","j","k","l","m","n","o","p","q",
              "r","s","t","u","v","w","x","y","z">>[i] = Head(left)
         /\ <<"a","b","c","d","e","f","g","h","i","j","k","l","m","n","o","p","q",
              "r","s","t","u","v","w","x","y","z">>[j] = Head(right)
         /\ i < j

\* the entries in the order the object lists them
SortEntries_Unsorted(entries) == entries

RECURSIVE SortEntries(_)
\* Object.entries(authHeaders).sort(by name): insertion sort
SortEntries(entries) ==
  IF Len(entries) <= 1 THEN entries
  ELSE LET rest == SortEntries(Tail(entries))
           e    == Head(entries)
           k    == Cardinality({i \in 1..Len(rest) : LocaleLess(rest[i].name, e.name)})
       IN  SubSeq(rest, 1, k) \o <<e>> \o SubSeq(rest, k + 1, Len(rest))

getAuthHeadersCacheKey(authHeaders) ==
  IF authHeaders = <<>> THEN <<>>
  ELSE LET sorted == SortEntries(authHeaders)
       IN  Join([i \in 1..Len(sorted) |->
                   sorted[i].name \o <<":">> \o sorted[i].value], "|")

NODE_KEY == <<"n", "o", "d", "e">>

NO_PROJECT_BASE_URL ==
  <<"n","o","-","p","r","o","j","e","c","t","-","b","a","s","e","-","u","r","l">>

\* the key of occtModulePromiseByKey computed by getOcctModule
moduleCacheKey(projectBaseUrl, authHeaders, nodeRuntime, origin) ==
  LET cacheBase == IF projectBaseUrl # <<>> THEN projectBaseUrl ELSE origin
  IN  IF nodeRuntime THEN NODE_KEY
      ELSE (IF cacheBase # <<>> THEN cacheBase ELSE NO_PROJECT_BASE_URL)
             \o <<":", ":">> \o getAuthHeadersCacheKey(authHeaders)

(***************************************************************************)
(* step.ts: WASM candidates                                                *)
(***************************************************************************)
OCCT_WASM_MODULE_PATH ==
  <<"n","o","d","e","_","m","o","d","u","l","e","s","/","o","c","c","t","-","i",
    "m","p","o","r","t","-","j","s","/","d","i","s","t","/","o","c","c","t","-",
    "i","m","p","o","r","t","-","j","s",".","w","a","s","m">>

OCCT_WASM_CDN_URLS ==
  << <<"h","t","t","p","s",":","/","/","c","d","n",".","j","s","d","e","l","i",
       "v","r",".","n","e","t","/","n","p","m","/","o","c","c","t","-","i","m",
       "p","o","r","t","-","j","s","@","0",".","0",".","2","3","/","d","i","s",
       "t","/","o","c","c","t","-","i","m","p","o","r","t","-","j","s",".","w",
       "a","s","m">>,
     <<"h","t","t","p","s",":","/","/","u","n","p","k","g",".","c","o","m","/",
       "o","c","c","t","-","i","m","p","o","r","t","-","j","s","@","0",".","0",
       ".","2","3","/","d","i","s","t","/","o","c","c","t","-","i","m","p","o",
       "r","t","-","j","s",".","w","a","s","m">> >>

WASM_MAGIC_WORD == <<0, 97, 115, 109>>

\* bytes.length >= 4 and the first four bytes are "\0asm"
isValidWasmBinary(bytes) ==
  /\ Len(bytes) >= Len(WASM_MAGIC_WORD)
  /\ \A index \in 1..Len(WASM_MAGIC_WORD) : bytes[index] = WASM_MAGIC_WORD[index]

\* a candidate put in front of the earlier ones
addCandidate_Prepended(candidates, url, label, useAuthHeaders) ==
  IF \E i \in 1..Len(candidates) : candidates[i].url = url THEN candidates
  ELSE <<[url |-> url, label |-> label, useAuthHeaders |-> useAuthHeaders]>> \o candidates

\* addCandidate: a URL seen before is not added again
addCandidate(candidates, url, label, useAuthHeaders) ==
  IF \E i \in 1..Len(candidates) : candidates[i].url = url THEN candidates
  ELSE Append(candidates, [url |-> url, label |-> label, useAuthHeaders |-> useAuthHeaders])

\* candidates that all carry the auth headers
getBrowserWasmCandidates_AuthEverywhere(projectBaseUrl, origin) ==
  LET wasmUrl == resolveModelUrl(OCCT_WASM_MODULE_PATH, projectBaseUrl, FALSE)
      c1 == IF projectBaseUrl # <<>> /\ ~wasmUrl.threw
            THEN addCandidate(<<>>, wasmUrl.url, "resolved from projectBaseUrl", TRUE)
            ELSE <<>>
      c2 == IF origin # <<>>
            THEN addCandidate(c1, origin \o <<"/">> \o OCCT_WASM_MODULE_PATH,
                              "browser origin /node_modules path", TRUE)
            ELSE c1
      c3 == addCandidate(c2, OCCT_WASM_CDN_URLS[1], "CDN fallback", TRUE)
  IN  addCandidate(c3, OCCT_WASM_CDN_URLS[2], "CDN fallback", TRUE)

getBrowserWasmCandidates(projectBaseUrl, origin) ==
  LET wasmUrl == resolveModelUrl(OCCT_WASM_MODULE_PATH, projectBaseUrl, FALSE)
      c1 == IF projectBaseUrl # <<>> /\ ~wasmUrl.threw
            THEN addCandidate(<<>>, wasmUrl.url, "resolved from projectBaseUrl", TRUE)
            ELSE <<>>
      c2 == IF origin # <<>>
            THEN addCandidate(c1, origin \o <<"/">> \o OCCT_WASM_MODULE_PATH,
                              "browser origin /node_modules path", FALSE)
            ELSE c1
      c3 == addCandidate(c2, OCCT_WASM_CDN_URLS[1], "CDN fallback", FALSE)
  IN  addCandidate(c3, OCCT_WASM_CDN_URLS[2], "CDN fallback", FALSE)

(***************************************************************************)
(* State.                                                                  *)
(***************************************************************************)
VARIABLES
  \* the runtime: isNodeRuntime and location.origin (empty when undefined)
  isNodeRuntime, browserOrigin,
  \* step.ts module state: the mesh cache and the kernel promise cache
  stepCache, occtModulePromiseByKey,
  \* the kernel initialisation promises created so far, by creation number
  modulePromises,
  \* the loadSTEP calls in progress, one slot per caller
  req,
  \* number of loadSTEP calls made so far
  calls,
  \* every fetch of a STEP file issued so far, in order
  fetchLog

loaderVars ==
  <<isNodeRuntime, browserOrigin, stepCache, occtModulePromiseByKey,
    modulePromises, req, calls, fetchLog>>

Callers == 1..NumReq

\* most loadSTEP calls of one run
MaxCalls == 2

NoMesh == [key |-> <<>>, call |-> 0, headers |-> <<>>]

IdleReq ==
  [pc |-> "idle", call |-> 0, url |-> <<>>, transform |-> NoTransform,
   projectBaseUrl |-> <<>>, authHeaders |-> <<>>, cacheKey |-> <<>>,
   promise |-> 0, mesh |-> NoMesh, error |-> "none"]

\* a map that never reports a key
MapHas_Never(map, key) == FALSE

\* Map.prototype.has
MapHas(map, key) == key \in DOMAIN map

\* a set that stores nothing
MapSet_Dropped(map, key, value) == map

\* Map.prototype.set
MapSet(map, key, value) ==
  [k \in DOMAIN map \cup {key} |-> IF k = key THEN value ELSE map[k]]

\* Map.prototype.delete
MapDelete(map, key) == [k \in DOMAIN map \ {key} |-> map[k]]

EmptyMap == [k \in {} |-> 0]

(***************************************************************************)
(* step.ts: loadSTEP                                                       *)
(***************************************************************************)
\* `${resolvedUrl}:${JSON.stringify(transform ?? {})}`
StepCacheKey(resolvedUrl, transform) == resolvedUrl \o <<":">> \o JsonStringify(transform)

\* a settled call keeps its outcome and the auth headers it was given; its
\* other arguments are gone with its frame
Settled(request, pc, mesh, error) ==
  [IdleReq EXCEPT !.pc = pc, !.call = request.call, !.cacheKey = request.cacheKey,
                  !.authHeaders = request.authHeaders, !.mesh = mesh, !.error = error]

\* a caller invokes loadSTEP: the URL is resolved, the cache is looked up and,
\* on a miss, the fetch is issued.  resolveModelUrl reads no mutable state, so
\* the continuation after `await resolveModelUrl` is taken in the same step
CallLoadSTEP(r, url, transform, projectBaseUrl, authHeaders) ==
  /\ req[r].pc \in {"idle", "returned", "rejected"}
  /\ calls < MaxCalls
  /\ calls' = calls + 1
  /\ LET resolved == resolveModelUrl(url, projectBaseUrl, isNodeRuntime)
         cacheKey == StepCacheKey(resolved.url, transform)
         request  == [IdleReq EXCEPT !.call = calls + 1, !.url = url,
                        !.transform = transform, !.projectBaseUrl = projectBaseUrl,
                        !.authHeaders = authHeaders]
     IN  IF resolved.threw
         THEN /\ req' = [req EXCEPT ![r] = Settled(request, "rejected", NoMesh, "resolve")]
              /\ UNCHANGED fetchLog
         ELSE IF MapHas(stepCache, cacheKey)
         THEN /\ req' = [req EXCEPT ![r] =
                   Settled([request EXCEPT !.cacheKey = cacheKey], "returned",
                           stepCache[cacheKey], "none")]
              /\ UNCHANGED fetchLog
         ELSE /\ req' = [req EXCEPT ![r] =
                   [request EXCEPT !.pc = "fetching", !.cacheKey = cacheKey]]
              /\ fetchLog' = Append(fetchLog,
                   [call |-> calls + 1, url |-> resolved.url, key |-> cacheKey,
                    headers |-> authHeaders])
  /\ UNCHANGED <<isNodeRuntime, browserOrigin, stepCache, occtModulePromiseByKey,
                 modulePromises>>

PendingPromise(key, projectBaseUrl, authHeaders) ==
  [status |-> "pending", key |-> key, projectBaseUrl |-> projectBaseUrl,
   authHeaders |-> authHeaders, pc |-> "import", wasmCandidates |-> <<>>,
   next |-> 1, attempts |-> <<>>, evicted |-> FALSE]

\* the fetch of the STEP file fails (network error or a status that is not OK)
LoadSTEP_FetchFailed(r) ==
  /\ req[r].pc = "fetching"
  /\ req' = [req EXCEPT ![r] = Settled(req[r], "rejected", NoMesh, "fetch")]
  /\ UNCHANGED <<isNodeRuntime, browserOrigin, stepCache, occtModulePromiseByKey,
                 modulePromises, calls, fetchLog>>

\* the response and its body arrive; loadSTEP calls getOcctModule, which
\* memoizes a new initialisation promise when the key has none, and awaits it
LoadSTEP_FetchOk(r) ==
  /\ req[r].pc = "fetching"
  /\ LET key == moduleCacheKey(req[r].projectBaseUrl, req[r].authHeaders,
                               isNodeRuntime, browserOrigin)
     IN  IF MapHas(occtModulePromiseByKey, key)
         THEN /\ req' = [req EXCEPT ![r].pc = "awaitingOcct",
                                    ![r].promise = occtModulePromiseByKey[key]]
              /\ UNCHANGED <<occtModulePromiseByKey, modulePromises>>
         ELSE /\ Len(modulePromises) < MaxInits
              /\ modulePromises' = Append(modulePromises,
                   PendingPromise(key, req[r].projectBaseUrl, req[r].authHeaders))
              /\ occtModulePromiseByKey' =
                   MapSet(occtModulePromiseByKey, key, Len(modulePromises) + 1)
              /\ req' = [req EXCEPT ![r].pc = "awaitingOcct",
                                    ![r].promise = Len(modulePromises) + 1]
  /\ UNCHANGED <<isNodeRuntime, browserOrigin, stepCache, calls, fetchLog>>

\* the awaited kernel promise is rejected: loadSTEP rejects.  The reaction of
\* the promise's catch handler was registered first, so it has run before
LoadSTEP_KernelRejected(r) ==
  /\ req[r].pc = "awaitingOcct"
  /\ modulePromises[req[r].promise].status = "rejected"
  /\ modulePromises[req[r].promise].evicted
  /\ req' = [req EXCEPT ![r] = Settled(req[r], "rejected", NoMesh, "kernel")]
  /\ UNCHANGED <<isNodeRuntime, browserOrigin, stepCache, occtModulePromiseByKey,
                 modulePromises, calls, fetchLog>>

\* the kernel is there; ReadStepFile fails on the file (result.success false)
LoadSTEP_ParseFailed(r) ==
  /\ req[r].pc = "awaitingOcct"
  /\ modulePromises[req[r].promise].status = "resolved"
  /\ req' = [req EXCEPT ![r] = Settled(req[r], "rejected", NoMesh, "parse")]
  /\ UNCHANGED <<isNodeRuntime, browserOrigin, stepCache, occtModulePromiseByKey,
                 modulePromises, calls, fetchLog>>

\* the mesh converted from the file that call fetched with these headers
MeshOf(r) == [key |-> req[r].cacheKey, call |-> req[r].call, headers |-> req[r].authHeaders]

\* the kernel is there and the file parses: the mesh is memoized and returned
LoadSTEP_Parsed(r) ==
  /\ req[r].pc = "awaitingOcct"
  /\ modulePromises[req[r].promise].status = "resolved"
  /\ stepCache' = MapSet(stepCache, req[r].cacheKey, MeshOf(r))
  /\ req' = [req EXCEPT ![r] = Settled(req[r], "returned", MeshOf(r), "none")]
  /\ UNCHANGED <<isNodeRuntime, browserOrigin, occtModulePromiseByKey,
                 modulePromises, calls, fetchLog>>

clearSTEPCache ==
  /\ stepCache # EmptyMap
  /\ stepCache' = EmptyMap
  /\ UNCHANGED <<isNodeRuntime, browserOrigin, occtModulePromiseByKey,
                 modulePromises, req, calls, fetchLog>>

(***************************************************************************)
(* step.ts: getOcctModule's initialisation promise                         *)
(***************************************************************************)
\* the dynamic import has resolved; in Node occtimportjs() is called, in a
\* browser initializeOcctModuleForBrowser computes its candidate list
Occt_Imported(p) ==
  /\ modulePromises[p].status = "pending"
  /\ modulePromises[p].pc = "import"
  /\ modulePromises' = [modulePromises EXCEPT
       ![p].pc = IF isNodeRuntime THEN "node" ELSE "candidates",
       ![p].wasmCandidates =
          IF isNodeRuntime THEN <<>>
          ELSE getBrowserWasmCandidates(modulePromises[p].projectBaseUrl, browserOrigin)]
  /\ UNCHANGED <<isNodeRuntime, browserOrigin, stepCache, occtModulePromiseByKey,
                 req, calls, fetchLog>>

\* Node: occtimportjs() settles
Occt_NodeSettled(p, ok) ==
  /\ modulePromises[p].status = "pending"
  /\ modulePromises[p].pc = "node"
  /\ modulePromises' = [modulePromises EXCEPT
       ![p].pc = "done", ![p].status = IF ok THEN "resolved" ELSE "rejected"]
  /\ UNCHANGED <<isNodeRuntime, browserOrigin, stepCache, occtModulePromiseByKey,
                 req, calls, fetchLog>>

\* what one iteration of the candidate loop can meet
WasmOutcomes ==
  {[fetched |-> FALSE, status |-> 0, bytes |-> <<>>, instantiates |-> FALSE],
   [fetched |-> TRUE, status |-> 404, bytes |-> <<>>, instantiates |-> FALSE],
   [fetched |-> TRUE, status |-> 200, bytes |-> <<60, 104, 116, 109>>, instantiates |-> FALSE],
   [fetched |-> TRUE, status |-> 200, bytes |-> <<0, 97>>, instantiates |-> FALSE],
   [fetched |-> TRUE, status |-> 200, bytes |-> <<0, 97, 115, 109, 1>>, instantiates |-> FALSE],
   [fetched |-> TRUE, status |-> 200, bytes |-> <<0, 97, 115, 109, 1>>, instantiates |-> TRUE]}

\* fetchWasmBinary followed by occtimportjs({ wasmBinary }) succeeds
WasmAttemptOk(outcome) ==
  /\ outcome.fetched
  /\ outcome.status = 200
  /\ isValidWasmBinary(outcome.bytes)
  /\ outcome.instantiates

\* browser: one iteration of `for (const candidate of wasmCandidates)`
Occt_TryCandidate(p, outcome) ==
  /\ modulePromises[p].status = "pending"
  /\ modulePromises[p].pc = "candidates"
  /\ modulePromises[p].next <= Len(modulePromises[p].wasmCandidates)
  /\ LET i         == modulePromises[p].next
         candidate == modulePromises[p].wasmCandidates[i]
         attempt   == [candidate |-> i,
                       headers |-> IF candidate.useAuthHeaders
                                   THEN modulePromises[p].authHeaders ELSE <<>>,
                       ok |-> WasmAttemptOk(outcome)]
     IN  modulePromises' = [modulePromises EXCEPT
           ![p].attempts = Append(@, attempt),
           ![p].next = IF WasmAttemptOk(outcome) THEN @ ELSE @ + 1,
           ![p].pc = IF WasmAttemptOk(outcome) THEN "done" ELSE @,
           ![p].status = IF WasmAttemptOk(outcome) THEN "resolved" ELSE @]
  /\ UNCHANGED <<isNodeRuntime, browserOrigin, stepCache, occtModulePromiseByKey,
                 req, calls, fetchLog>>

\* browser: the loop ends without a return: the aggregate error is thrown
Occt_Exhausted(p) ==
  /\ modulePromises[p].status = "pending"
  /\ modulePromises[p].pc = "candidates"
  /\ modulePromises[p].next > Len(modulePromises[p].wasmCandidates)
  /\ modulePromises' = [modulePromises EXCEPT ![p].pc = "done", ![p].status = "rejected"]
  /\ UNCHANGED <<isNodeRuntime, browserOrigin, stepCache, occtModulePromiseByKey,
                 req, calls, fetchLog>>

\* modulePromise.catch(() => occtModulePromiseByKey.delete(moduleCacheKey))
Occt_Evict(p) ==
  /\ modulePromises[p].status = "rejected"
  /\ ~modulePromises[p].evicted
  /\ modulePromises' = [modulePromises EXCEPT ![p].evicted = TRUE]
  /\ occtModulePromiseByKey' = MapDelete(occtModulePromiseByKey, modulePromises[p].key)
  /\ UNCHANGED <<isNodeRuntime, browserOrigin, stepCache, req, calls, fetchLog>>

\* the steps of the kernel initialisations
OcctStep ==
  \E p \in 1..Len(modulePromises) :
    \/ Occt_Imported(p)
    \/ \E ok \in BOOLEAN : Occt_NodeSettled(p, ok)
    \/ \E outcome \in WasmOutcomes : Occt_TryCandidate(p, outcome)
    \/ Occt_Exhausted(p)
    \/ Occt_Evict(p)

\* the steps of a loadSTEP call after its invocation
LoadStep(r) ==
  \/ LoadSTEP_FetchFailed(r)
  \/ LoadSTEP_FetchOk(r)
  \/ LoadSTEP_KernelRejected(r)
  \/ LoadSTEP_ParseFailed(r)
  \/ LoadSTEP_Parsed(r)

(***************************************************************************)
(* circuit-to-3d.ts: the records of a conversion input.  Lengths are in    *)
(* hundredths of a millimetre, angles in degrees.                          *)
(***************************************************************************)
DEFAULT_BOARD_THICKNESS == 160

DEFAULT_COMPONENT_HEIGHT == 200

FAUX_BOARD_MARGIN == 200

DEFAULT_FAUX_BOARD_SIZE == 1000

\* the default of options.pcbColor
PcbColor == "rgba(0,140,0,0.8)"

\* the default of options.componentColor
ComponentColor == "rgba(128,128,128,0.5)"

\* the first pcb_panel record: 100 x 80 mm around the origin
PcbPanel == [center |-> [x |-> 0, y |-> 0], width |-> 10000, height |-> 8000]

\* the first pcb_board record: 30 x 20 mm, 1.2 mm thick, off the panel's centre
PcbBoard ==
  [pcb_board_id |-> "board1", center |-> [x |-> 500, y |-> 300],
   width |-> 3000, height |-> 2000, thickness |-> 120]

\* a pcb_cutout record; pcb_board_id is "" when the record carries none
PcbCutout(id, shape, boardId) ==
  [pcb_cutout_id |-> id, shape |-> shape, pcb_board_id |-> boardId]

\* the pcb_cutout lists of the inputs: none, a rectangle, a rectangle and a
\* circle; each cutout references no board, the first board or another board
PcbCutoutLists ==
  LET boardIds == {"", "board1", "board2"}
  IN  {<<>>}
        \cup {<<PcbCutout("cutout_rect", "rect", b)>> : b \in boardIds}
        \cup {<<PcbCutout("cutout_rect", "rect", b1),
                PcbCutout("cutout_circle", "circle", b2)>> :
                b1 \in boardIds, b2 \in boardIds}

\* number of pcb_component records of the largest input
NumPcb == 2

\* the i-th pcb_component record: odd ones on the top layer, even ones on the
\* bottom layer; the first one is the 4 x 6 mm component at (15, 5)
PcbComponent(i) ==
  [pcb_component_id |-> i,
   source_component_id |-> i,
   layer |-> IF i % 2 = 1 THEN "top" ELSE "bottom",
   center |-> IF i = 1 THEN [x |-> 1500, y |-> 500] ELSE [x |-> 0 - 500 * i, y |-> 200],
   width |-> IF i = 1 THEN 400 ELSE 100,
   height |-> IF i = 1 THEN 600 ELSE 100]

\* the pcb_component lists of the inputs
PcbComponentLists == {[i \in 1..n |-> PcbComponent(i)] : n \in 0..NumPcb}

\* the name of the source_component of a pcb_component: only the first is named
SourceComponentName(id) == IF id = 1 THEN "U1" ELSE "undefined"

NoRotation == [given |-> FALSE, x |-> 0, y |-> 0, z |-> 0]

RotationOf(x, y, z) == [given |-> TRUE, x |-> x, y |-> y, z |-> z]

\* cad.rotation: absent, all zero, or different on every axis
CadRotations == {NoRotation, RotationOf(0, 0, 0), RotationOf(10, 20, 30)}

UrlStl == <<"a", ".", "s", "t", "l">>

UrlObj == <<"a", ".", "o", "b", "j">>

UrlGlb == <<"a", ".", "g", "l", "b">>

UrlGltf == <<"a", ".", "g", "l", "t", "f">>

FootprinterString == <<"s", "o", "i", "c", "8">>

CadComponent(pcbId, stl, obj, glb, gltf, step, footprinter, rotation) ==
  [pcb_component_id |-> pcbId,
   model_stl_url |-> stl, model_obj_url |-> obj, model_glb_url |-> glb,
   model_gltf_url |-> gltf, model_step_url |-> step,
   footprinter_string |-> footprinter, rotation |-> rotation]

\* cad_component records with any combination of geometry sources, on either
\* pcb_component, with any of the rotations
DetailedCadComponents ==
  {CadComponent(pcbId, stl, obj, glb, gltf, step, fp, rotation) :
     pcbId \in 1..NumPcb, stl \in {<<>>, UrlStl}, obj \in {<<>>, UrlObj},
     glb \in {<<>>, UrlGlb}, gltf \in {<<>>, UrlGltf}, step \in {<<>>, UrlM},
     fp \in {<<>>, FootprinterString}, rotation \in CadRotations}

\* number of geometry sources a cad_component record carries
SourceCount(c) ==
  Cardinality({k \in 1..6 :
    <<c.model_stl_url, c.model_obj_url, c.model_glb_url, c.model_gltf_url,
      c.model_step_url, c.footprinter_string>>[k] # <<>>})

\* cad_component records with at most one geometry source and no rotation; the
\* STEP file is referenced by either of its spellings
SimpleCadComponents ==
  {c \in DetailedCadComponents :
     c.pcb_component_id = 1 /\ ~c.rotation.given /\ SourceCount(c) <= 1}
    \cup {CadComponent(1, <<>>, <<>>, <<>>, <<>>, UrlDotM, <<>>, NoRotation)}

RECURSIVE SeqsUpTo(_, _)
\* the sequences of at most n elements of S
SeqsUpTo(S, n) ==
  IF n = 0 THEN {<<>>}
  ELSE LET shorter == SeqsUpTo(S, n - 1)
       IN  shorter \cup {Append(q, e) : q \in {x \in shorter : Len(x) = n - 1}, e \in S}

\* the records of a list put on one pcb_component, or on one after the other
Placed(list, spread) ==
  [i \in 1..Len(list) |->
     [list[i] EXCEPT !.pcb_component_id = IF spread THEN ((i - 1) % NumPcb) + 1 ELSE 1]]

\* the cad_component lists of the inputs: up to MaxCad simple records, or one
\* detailed record
CadComponentLists ==
  {Placed(list, spread) : list \in SeqsUpTo(SimpleCadComponents, MaxCad),
                          spread \in BOOLEAN}
    \cup {<<c>> : c \in DetailedCadComponents}

(***************************************************************************)
(* circuit-to-3d.ts: convertCircuitJsonTo3D                                *)
(***************************************************************************)
VARIABLES
  \* position of the conversion call
  convPc,
  \* the arguments of the call
  circuitJson, options,
  \* index of the cad_component the loop is at
  cadIndex,
  \* the primitives collected so far, and pcbComponentIdsWith3D
  boxes, pcbComponentIdsWith3D,
  \* the camera of the returned scene
  camera,
  \* the loader invocations that have settled, in order
  loaderLog,
  \* the renderBoardTextures invocations that have settled, in order
  textureLog

convVars ==
  <<convPc, circuitJson, options, cadIndex, boxes, pcbComponentIdsWith3D, camera,
    loaderLog, textureLog>>

VARIABLES
  \* position of a direct call of one of the exported helper functions
  fnPc,
  \* the arguments of the call
  fnArgs,
  \* what the call has computed so far, and what it returned
  fnOut

fnVars == <<fnPc, fnArgs, fnOut>>

vars == <<loaderVars, convVars, fnVars>>

\* the loadSTEP caller slot of the conversion call
ConvCaller == 1

\* Math.PI in millionths
PI_MICRO == 3141593

\* convertRotationFromCadRotation: degrees to radians (in millionths)
convertRotationFromCadRotation(rot) ==
  [given |-> TRUE,
   x |-> (rot.x * PI_MICRO) \div 180,
   y |-> (rot.y * PI_MICRO) \div 180,
   z |-> (rot.z * PI_MICRO) \div 180]

\* no scene, hence no camera, has been returned
NoCamera ==
  [basis |-> "none", position |-> [x |-> 0, y |-> 0, z |-> 0],
   target |-> [x |-> 0, y |-> 0, z |-> 0], up |-> [x |-> 0, y |-> 0, z |-> 0],
   far |-> 0]

RECURSIVE SqrtBetween(_, _, _)
\* the greatest r in lo..hi with r * r <= n
SqrtBetween(n, lo, hi) ==
  IF lo >= hi THEN lo
  ELSE LET mid == (lo + hi + 1) \div 2
       IN  IF mid * mid <= n THEN SqrtBetween(n, mid, hi)
           ELSE SqrtBetween(n, lo, mid - 1)

\* Math.sqrt, rounded down to the unit of lengths
Sqrt(n) == SqrtBetween(n, 0, 46340)

\* lines 516-536 and 558-574: the camera that looks at the centre of a
\* width x height rectangle from 1.5 times its diagonal
DiagonalCamera(basis, centerX, centerZ, width, height) ==
  LET diagonal == Sqrt(width * width + height * height)
      distance == (diagonal * 3) \div 2
  IN  [basis |-> basis,
       position |-> [x |-> centerX + distance \div 2,
                     y |-> (distance * 7) \div 10,
                     z |-> centerZ + distance \div 2],
       target |-> [x |-> centerX, y |-> 0, z |-> centerZ],
       up |-> [x |-> 0, y |-> 1, z |-> 0],
       far |-> distance * 4]

\* lines 576-583: the camera of a scene without primitives
FallbackCamera ==
  [basis |-> "fallback", position |-> [x |-> 3000, y |-> 3000, z |-> 2500],
   target |-> [x |-> 0, y |-> 0, z |-> 0], up |-> [x |-> 0, y |-> 1, z |-> 0],
   far |-> 12000]

NoBox ==
  [kind |-> "none", ref |-> 0, center |-> [x |-> 0, y |-> 0, z |-> 0],
   size |-> [x |-> 0, y |-> 0, z |-> 0], mesh |-> NoMesh, meshUrl |-> <<>>,
   meshType |-> "undefined", color |-> "undefined", texture |-> "undefined",
   rotation |-> NoRotation, label |-> "undefined", cutouts |-> <<>>]

\* a mesh that did not come out of loadSTEP: the outline or file it was built from
MeshFrom(source) == [key |-> source, call |-> 0, headers |-> <<>>]

effectiveBoardThickness ==
  IF circuitJson.pcb_board THEN PcbBoard.thickness ELSE DEFAULT_BOARD_THICKNESS

\* db.pcb_component.get(id): the record or nothing
HasPcbComponent(id) == id \in 1..Len(circuitJson.pcb_components)

RECURSIVE MinOf(_)
MinOf(S) == LET e == CHOOSE e \in S : TRUE
            IN  IF S = {e} THEN e
                ELSE LET m == MinOf(S \ {e}) IN IF e < m THEN e ELSE m

RECURSIVE MaxOf(_)
MaxOf(S) == LET e == CHOOSE e \in S : TRUE
            IN  IF S = {e} THEN e
                ELSE LET m == MaxOf(S \ {e}) IN IF e > m THEN e ELSE m

\* findBoundsAndCenter of @tscircuit/circuit-json-util on pcb_component
\* records: the bounds of their rectangles
findBoundsAndCenter(components) ==
  LET idx  == 1..Len(components)
      minX == MinOf({components[i].center.x - components[i].width \div 2 : i \in idx})
      maxX == MaxOf({components[i].center.x + components[i].width \div 2 : i \in idx})
      minY == MinOf({components[i].center.y - components[i].height \div 2 : i \in idx})
      maxY == MaxOf({components[i].center.y + components[i].height \div 2 : i \in idx})
  IN  [center |-> [x |-> (minX + maxX) \div 2, y |-> (minY + maxY) \div 2],
       width |-> maxX - minX, height |-> maxY - minY]

\* textures rendered whenever they are requested, whatever the resolution
texturesRequested_AtAnyResolution(shouldRenderTextures, textureResolution) ==
  shouldRenderTextures

\* lines 113, 168 and 224: `shouldRenderTextures && textureResolution > 0`
texturesRequested(shouldRenderTextures, textureResolution) ==
  shouldRenderTextures /\ textureResolution > 0

\* the texture of a surface primitive: the pair rendered by renderBoardTextures
\* when textures are requested, the resolution is positive and the renderer
\* does not throw
SurfaceTexture(shouldRenderTextures, textureResolution, texturesOk) ==
  IF texturesRequested(shouldRenderTextures, textureResolution) /\ texturesOk
  THEN "rendered" ELSE "undefined"

\* every cutout handed to the panel mesh
panelCutouts_Unfiltered(pcbCutouts) == pcbCutouts

\* line 85: the cutouts of the panel are those without a pcb_board_id
panelCutouts(pcbCutouts) == SelectSeq(pcbCutouts, LAMBDA cutout : cutout.pcb_board_id = "")

\* filterCutoutsForBoard of lib/utils/pcb-board-cutouts.ts: the cutouts that
\* are scoped to the board
filterCutoutsForBoard(pcbCutouts, pcbBoard) ==
  SelectSeq(pcbCutouts, LAMBDA cutout : cutout.pcb_board_id = pcbBoard.pcb_board_id)

\* lines 87-110 and createPanelMesh: the panel primitive; its mesh is the panel
\* outline less one solid per cutout of options.cutouts
PanelBox(thickness, cutouts, texture) ==
  [NoBox EXCEPT
     !.kind = "panel",
     !.center = [x |-> PcbPanel.center.x, y |-> 0, z |-> PcbPanel.center.y],
     !.size = [x |-> PcbPanel.width, y |-> thickness, z |-> PcbPanel.height],
     !.mesh = MeshFrom(<<"pcb_panel">>),
     !.cutouts = cutouts,
     !.color = PcbColor,
     !.texture = texture]

\* lines 142-165: the board primitive; its mesh is the board outline less one
\* solid per cutout of options.cutouts
BoardBox(thickness, cutouts, texture) ==
  [NoBox EXCEPT
     !.kind = "board",
     !.center = [x |-> PcbBoard.center.x, y |-> 0, z |-> PcbBoard.center.y],
     !.size = [x |-> PcbBoard.width, y |-> thickness, z |-> PcbBoard.height],
     !.mesh = MeshFrom(<<"pcb_board">>),
     !.cutouts = cutouts,
     !.color = PcbColor,
     !.texture = texture]

\* a faux board sized to the component bounds plus the margin, without a floor
FauxBoardBox_Unfloored(pcbComponents, thickness, texture) ==
  LET hasComponentBounds == Len(pcbComponents) > 0
      componentBounds    == findBoundsAndCenter(pcbComponents)
  IN  [NoBox EXCEPT
         !.kind = "faux",
         !.center = [x |-> IF hasComponentBounds THEN componentBounds.center.x ELSE 0,
                     y |-> IF hasComponentBounds THEN componentBounds.center.y ELSE 0,
                     z |-> 0],
         !.size = [x |-> IF hasComponentBounds
                         THEN componentBounds.width + FAUX_BOARD_MARGIN * 2
                         ELSE DEFAULT_FAUX_BOARD_SIZE,
                   y |-> thickness,
                   z |-> IF hasComponentBounds
                         THEN componentBounds.height + FAUX_BOARD_MARGIN * 2
                         ELSE DEFAULT_FAUX_BOARD_SIZE],
         !.color = PcbColor,
         !.texture = texture]

\* lines 189-222: the faux board primitive
FauxBoardBox(pcbComponents, thickness, texture) ==
  LET hasComponentBounds == Len(pcbComponents) > 0
      componentBounds    == findBoundsAndCenter(pcbComponents)
      fauxWidth  == IF hasComponentBounds
                    THEN MaxOf({componentBounds.width + FAUX_BOARD_MARGIN * 2,
                                DEFAULT_FAUX_BOARD_SIZE})
                    ELSE DEFAULT_FAUX_BOARD_SIZE
      fauxHeight == IF hasComponentBounds
                    THEN MaxOf({componentBounds.height + FAUX_BOARD_MARGIN * 2,
                                DEFAULT_FAUX_BOARD_SIZE})
                    ELSE DEFAULT_FAUX_BOARD_SIZE
  IN  [NoBox EXCEPT
         !.kind = "faux",
         !.center = [x |-> IF hasComponentBounds THEN componentBounds.center.x ELSE 0,
                     y |-> IF hasComponentBounds THEN componentBounds.center.y ELSE 0,
                     z |-> 0],
         !.size = [x |-> fauxWidth, y |-> thickness, z |-> fauxHeight],
         !.color = PcbColor,
         !.texture = texture]

\* a surface chosen with the board ahead of the panel
SurfaceKind_BoardFirst(hasPanel, hasBoard, drawFauxBoard) ==
  IF hasBoard THEN "board"
  ELSE IF hasPanel THEN "panel"
  ELSE IF drawFauxBoard THEN "faux"
  ELSE "none"

\* the branch of `if (pcbPanel) ... else if (pcbBoard) ... else if (drawFauxBoard)`
SurfaceKind(hasPanel, hasBoard, drawFauxBoard) ==
  IF hasPanel THEN "panel"
  ELSE IF hasBoard THEN "board"
  ELSE IF drawFauxBoard THEN "faux"
  ELSE "none"

\* lines 71-263: the rendering surface; the cad_component loop is entered
Convert_Surface(texturesOk) ==
  /\ convPc = "surface"
  /\ LET texture == SurfaceTexture(options.renderBoardTextures,
                                   options.textureResolution, texturesOk)
         kind    == SurfaceKind(circuitJson.pcb_panel, circuitJson.pcb_board,
                                options.drawFauxBoard)
     IN  /\ boxes' = CASE kind = "panel" ->
                            <<PanelBox(effectiveBoardThickness,
                                       panelCutouts(circuitJson.pcb_cutouts), texture)>>
                       [] kind = "board" ->
                            <<BoardBox(effectiveBoardThickness,
                                       filterCutoutsForBoard(circuitJson.pcb_cutouts, PcbBoard),
                                       texture)>>
                       [] kind = "faux" -> <<FauxBoardBox(circuitJson.pcb_components,
                                                          effectiveBoardThickness, texture)>>
                       [] OTHER -> <<>>
         /\ textureLog' =
              IF kind # "none" /\ texturesRequested(options.renderBoardTextures,
                                                    options.textureResolution)
              THEN <<[surface |-> kind, ok |-> texturesOk]>>
              ELSE <<>>
  /\ cadIndex' = 1
  /\ convPc' = "cad"
  /\ UNCHANGED <<loaderVars, circuitJson, options, pcbComponentIdsWith3D, camera,
                 loaderLog>>

hasFootprinterModel(cad) ==
  /\ cad.footprinter_string # <<>>
  /\ cad.model_stl_url = <<>>
  /\ cad.model_obj_url = <<>>
  /\ cad.model_glb_url = <<>>
  /\ cad.model_gltf_url = <<>>
  /\ cad.model_step_url = <<>>

hasModelSource(cad) ==
  \/ cad.model_stl_url # <<>>
  \/ cad.model_obj_url # <<>>
  \/ cad.model_glb_url # <<>>
  \/ cad.model_gltf_url # <<>>
  \/ cad.model_step_url # <<>>
  \/ hasFootprinterModel(cad)

\* lines 333-345
meshType(cad) ==
  IF cad.model_stl_url # <<>> THEN "stl"
  ELSE IF cad.model_obj_url # <<>> THEN "obj"
  ELSE IF cad.model_gltf_url # <<>> THEN "gltf"
  ELSE IF cad.model_glb_url # <<>> THEN "glb"
  ELSE IF cad.model_step_url # <<>> THEN "step"
  ELSE IF hasFootprinterModel(cad) THEN "glb"
  ELSE "undefined"

\* lines 359-364: the first URL that is there
meshUrl(cad) ==
  IF cad.model_stl_url # <<>> THEN cad.model_stl_url
  ELSE IF cad.model_obj_url # <<>> THEN cad.model_obj_url
  ELSE IF cad.model_glb_url # <<>> THEN cad.model_glb_url
  ELSE IF cad.model_gltf_url # <<>> THEN cad.model_gltf_url
  ELSE cad.model_step_url

\* an if-chain that tries the GLTF URL ahead of the GLB URL, as meshType does
SelectedLoader_GltfFirst(cad) ==
  IF cad.model_stl_url # <<>> THEN "stl"
  ELSE IF cad.model_obj_url # <<>> THEN "obj"
  ELSE IF cad.model_gltf_url # <<>> THEN "gltf"
  ELSE IF cad.model_glb_url # <<>> THEN "glb"
  ELSE IF cad.model_step_url # <<>> THEN "step"
  ELSE IF hasFootprinterModel(cad) /\ cad.footprinter_string # <<>> THEN "footprinter"
  ELSE "none"

\* lines 414-462: the loader the if-chain invokes
SelectedLoader(cad) ==
  IF cad.model_stl_url # <<>> THEN "stl"
  ELSE IF cad.model_obj_url # <<>> THEN "obj"
  ELSE IF cad.model_glb_url # <<>> THEN "glb"
  ELSE IF cad.model_gltf_url # <<>> THEN "gltf"
  ELSE IF cad.model_step_url # <<>> THEN "step"
  ELSE IF hasFootprinterModel(cad) /\ cad.footprinter_string # <<>> THEN "footprinter"
  ELSE "none"

\* the url or footprint string handed to the selected loader
LoaderSource(cad) ==
  IF cad.model_stl_url # <<>> THEN cad.model_stl_url
  ELSE IF cad.model_obj_url # <<>> THEN cad.model_obj_url
  ELSE IF cad.model_glb_url # <<>> THEN cad.model_glb_url
  ELSE IF cad.model_gltf_url # <<>> THEN cad.model_gltf_url
  ELSE IF cad.model_step_url # <<>> THEN cad.model_step_url
  ELSE cad.footprinter_string

isBottomLayer(cad) ==
  /\ HasPcbComponent(cad.pcb_component_id)
  /\ circuitJson.pcb_components[cad.pcb_component_id].layer = "bottom"

\* lines 368-393
BoxRotation(cad) ==
  IF cad.rotation.given
  THEN convertRotationFromCadRotation(
         [x |-> cad.rotation.x, y |-> cad.rotation.z, z |-> cad.rotation.y])
  ELSE IF isBottomLayer(cad)
  THEN IF cad.model_glb_url # <<>> \/ cad.model_gltf_url # <<>> \/ hasFootprinterModel(cad)
       THEN convertRotationFromCadRotation([x |-> 0, y |-> 0, z |-> 180])
       ELSE convertRotationFromCadRotation([x |-> 180, y |-> 0, z |-> 0])
  ELSE NoRotation

\* lines 401-412
defaultTransform(cad) ==
  IF options.coordinateTransform # NoTransform THEN options.coordinateTransform
  ELSE IF cad.model_glb_url # <<>> \/ cad.model_gltf_url # <<>> THEN NoTransform
  ELSE IF hasFootprinterModel(cad) THEN "FOOTPRINTER_MODEL_TRANSFORM"
  ELSE IF cad.model_obj_url # <<>> THEN "OBJ_Z_UP_TO_Y_UP"
  ELSE "Z_UP_TO_Y_UP_USB_FIX"

\* lines 303-366 and 468-471: the primitive of a cad_component, given the mesh
\* the loader produced (NoMesh when there is none); cad.size, cad.position and
\* cad.model_unit_to_mm_scale_factor are absent
CadBox(index, cad, mesh) ==
  LET known == HasPcbComponent(cad.pcb_component_id)
      pcb   == circuitJson.pcb_components[cad.pcb_component_id]
      size  == [x |-> IF known THEN pcb.width ELSE 200,
                y |-> DEFAULT_COMPONENT_HEIGHT,
                z |-> IF known THEN pcb.height ELSE 200]
      above == effectiveBoardThickness \div 2 + size.y \div 2
  IN  [NoBox EXCEPT
         !.kind = "cad",
         !.ref = index,
         !.center = [x |-> IF known THEN pcb.center.x ELSE 0,
                     y |-> IF isBottomLayer(cad) THEN 0 - above ELSE above,
                     z |-> IF known THEN pcb.center.y ELSE 0],
         !.size = size,
         !.mesh = mesh,
         !.meshUrl = meshUrl(cad),
         !.meshType = IF meshUrl(cad) # <<>> THEN meshType(cad) ELSE "undefined",
         !.rotation = BoxRotation(cad),
         !.color = IF mesh = NoMesh THEN ComponentColor ELSE "undefined"]

CurrentCad == circuitJson.cad_components[cadIndex]

\* a settled loader invocation; call is the number of the loadSTEP call, if any
LoaderCall(index, cad, call, ok) ==
  [cad |-> index, loader |-> SelectedLoader(cad), source |-> LoaderSource(cad),
   transform |-> defaultTransform(cad), call |-> call, ok |-> ok]

\* line 293: a cad_component without a geometry source is passed over
Convert_SkipCad ==
  /\ convPc = "cad"
  /\ cadIndex <= Len(circuitJson.cad_components)
  /\ ~hasModelSource(CurrentCad)
  /\ cadIndex' = cadIndex + 1
  /\ UNCHANGED <<loaderVars, convPc, circuitJson, options, boxes,
                 pcbComponentIdsWith3D, camera, loaderLog, textureLog>>

\* no loader call inside try/catch
TryCatch_None(loader) == FALSE

\* every loader call inside try/catch
TryCatch_All(loader) == TRUE

\* the loader calls of the if-chain that are wrapped in try/catch, among those
\* that settle in one step
TryCatch(loader) == loader = "glb"

\* one iteration with the STL, OBJ, GLB, GLTF or footprinter loader, which
\* either returns a mesh or throws
Convert_LoadMesh(ok) ==
  /\ convPc = "cad"
  /\ cadIndex <= Len(circuitJson.cad_components)
  /\ hasModelSource(CurrentCad)
  /\ SelectedLoader(CurrentCad) \in {"stl", "obj", "glb", "gltf", "footprinter"}
  /\ pcbComponentIdsWith3D' = pcbComponentIdsWith3D \cup {CurrentCad.pcb_component_id}
  /\ loaderLog' = Append(loaderLog, LoaderCall(cadIndex, CurrentCad, 0, ok))
  /\ IF ok
     THEN /\ boxes' = Append(boxes, CadBox(cadIndex, CurrentCad,
                 MeshFrom(<<SelectedLoader(CurrentCad), defaultTransform(CurrentCad)>>
                            \o LoaderSource(CurrentCad))))
          /\ cadIndex' = cadIndex + 1
          /\ UNCHANGED convPc
     ELSE IF TryCatch(SelectedLoader(CurrentCad))
     THEN /\ boxes' = Append(boxes, CadBox(cadIndex, CurrentCad, NoMesh))
          /\ cadIndex' = cadIndex + 1
          /\ UNCHANGED convPc
     ELSE /\ convPc' = "rejected"
          /\ UNCHANGED <<boxes, cadIndex>>
  /\ UNCHANGED <<loaderVars, circuitJson, options, camera, textureLog>>

\* one iteration with the STEP loader: loadSTEP is called and awaited
Convert_CallLoadSTEP ==
  /\ convPc = "cad"
  /\ cadIndex <= Len(circuitJson.cad_components)
  /\ hasModelSource(CurrentCad)
  /\ SelectedLoader(CurrentCad) = "step"
  /\ pcbComponentIdsWith3D' = pcbComponentIdsWith3D \cup {CurrentCad.pcb_component_id}
  /\ CallLoadSTEP(ConvCaller, CurrentCad.model_step_url, defaultTransform(CurrentCad),
                  options.projectBaseUrl, options.authHeaders)
  /\ convPc' = "loadSTEP"
  /\ UNCHANGED <<circuitJson, options, cadIndex, boxes, camera, loaderLog, textureLog>>

\* loadSTEP has settled: its mesh is taken, or its rejection is caught
Convert_AfterLoadSTEP ==
  /\ convPc = "loadSTEP"
  /\ req[ConvCaller].pc \in {"returned", "rejected"}
  /\ loaderLog' = Append(loaderLog,
       LoaderCall(cadIndex, CurrentCad, req[ConvCaller].call,
                  req[ConvCaller].pc = "returned"))
  /\ boxes' = Append(boxes, CadBox(cadIndex, CurrentCad,
       IF req[ConvCaller].pc = "returned" THEN req[ConvCaller].mesh ELSE NoMesh))
  /\ cadIndex' = cadIndex + 1
  /\ convPc' = "cad"
  /\ UNCHANGED <<loaderVars, circuitJson, options, pcbComponentIdsWith3D, camera,
                 textureLog>>

\* lines 484-508: the bounding box of a pcb_component
BoundingBox(component) ==
  LET compHeight == MinOf({component.width, component.height, DEFAULT_COMPONENT_HEIGHT})
  IN  [NoBox EXCEPT
         !.kind = "bbox",
         !.ref = component.pcb_component_id,
         !.center = [x |-> component.center.x,
                     y |-> IF component.layer = "bottom"
                           THEN 0 - (effectiveBoardThickness + compHeight \div 2)
                           ELSE effectiveBoardThickness \div 2 + compHeight \div 2,
                     z |-> component.center.y],
         !.size = [x |-> component.width, y |-> compHeight, z |-> component.height],
         !.color = ComponentColor,
         !.label = IF SourceComponentName(component.source_component_id) # "undefined"
                   THEN SourceComponentName(component.source_component_id) ELSE "?"]

\* a bounding box for every pcb_component from i on
BoundingBoxes_All(i, with3D) ==
  [k \in 1..(Len(circuitJson.pcb_components) - i + 1) |->
     BoundingBox(circuitJson.pcb_components[k + i - 1])]

RECURSIVE BoundingBoxes(_, _)
\* the loop of lines 478-509 from component i on
BoundingBoxes(i, with3D) ==
  IF i > Len(circuitJson.pcb_components) THEN <<>>
  ELSE (IF circuitJson.pcb_components[i].pcb_component_id \in with3D THEN <<>>
        ELSE <<BoundingBox(circuitJson.pcb_components[i])>>)
         \o BoundingBoxes(i + 1, with3D)

\* lines 476-510: the cad_component loop has ended; the bounding-box pass
Convert_BoundingBoxes ==
  /\ convPc = "cad"
  /\ cadIndex > Len(circuitJson.cad_components)
  /\ boxes' = IF options.showBoundingBoxes
              THEN boxes \o BoundingBoxes(1, pcbComponentIdsWith3D)
              ELSE boxes
  /\ convPc' = "camera"
  /\ UNCHANGED <<loaderVars, circuitJson, options, cadIndex, pcbComponentIdsWith3D, camera,
                 loaderLog, textureLog>>

\* lines 512-607: the default camera, and the scene is returned
Convert_Return ==
  /\ convPc = "camera"
  /\ camera' =
       IF circuitJson.pcb_board
       THEN DiagonalCamera("board", PcbBoard.center.x, PcbBoard.center.y,
                           PcbBoard.width, PcbBoard.height)
       ELSE IF Len(boxes) > 0
       THEN LET idx  == 1..Len(boxes)
                minX == MinOf({boxes[i].center.x - boxes[i].size.x \div 2 : i \in idx})
                maxX == MaxOf({boxes[i].center.x + boxes[i].size.x \div 2 : i \in idx})
                minZ == MinOf({boxes[i].center.z - boxes[i].size.z \div 2 : i \in idx})
                maxZ == MaxOf({boxes[i].center.z + boxes[i].size.z \div 2 : i \in idx})
            IN  DiagonalCamera("boxes", (minX + maxX) \div 2, (minZ + maxZ) \div 2,
                               MaxOf({maxX - minX, 100}), MaxOf({maxZ - minZ, 100}))
       ELSE FallbackCamera
  /\ convPc' = "done"
  /\ UNCHANGED <<loaderVars, circuitJson, options, cadIndex, boxes,
                 pcbComponentIdsWith3D, loaderLog, textureLog>>

(***************************************************************************)
(* Direct calls of resolveModelUrl, extractPackageInfoFromNodeModulesPath   *)
(* and batchedUnion.                                                       *)
(***************************************************************************)
\* the parts a path argument is put together from, or the class of an
\* argument that is not put together ("scheme", "windows", "none")
Parts(class, prefix, dir, pkg, rest) ==
  [class |-> class, prefix |-> prefix, dir |-> dir, pkg |-> pkg, rest |-> rest]

\* paths: a prefix, a directory, a package directory (unscoped, scoped, @tsci
\* with one dot, with two dots and without a dot, another scope with a dot),
\* and what follows it (nothing, a slash, files); and a scope without a package
PathInputs ==
  LET prefixes == {<<>>, <<"/">>, <<".", "/">>, <<"/", ".", "/">>, <<"/", "/">>}
      dirs == {NODE_MODULES_DIR, <<"x", "/">>,
               <<"n", "o", "d", "e", "_", "m", "o", "d", "u", "l", "e", "s", "x", "/">>, <<>>}
      pkgs == {<<"p">>, <<"@", "s", "/", "p">>, <<"@", "t", "s", "c", "i", "/", "a", ".", "b">>,
               <<"@", "t", "s", "c", "i", "/", "a", ".", "b", ".", "c">>,
               <<"@", "t", "s", "c", "i", "/", "a", "b">>, <<"@", "x", "/", "a", ".", "b">>}
      rests == {<<>>, <<"/">>, <<"/", "f">>, <<"/", "d", "i", "s", "t", "/", "f">>,
                <<"/", "d", "/", "f">>, <<"/", "d", "i", "s", "t", "x">>}
  IN  {Parts("path", prefix, dir, pkg, rest) :
         prefix \in prefixes, dir \in dirs, pkg \in pkgs, rest \in rests}
        \cup {Parts("path", prefix, NODE_MODULES_DIR, <<"@", "s">>, rest) :
                prefix \in prefixes, rest \in {<<>>, <<"/">>}}

\* longest list handed to batchedUnion
MaxGeoms == 3

DEFAULT_BATCH_SIZE == 50

FnArgs(fn, url, parts, projectBaseUrl, geoms, batchSize) ==
  [fn |-> fn, url |-> url, parts |-> parts, projectBaseUrl |-> projectBaseUrl,
   geoms |-> geoms, batchSize |-> batchSize]

NoFnArgs == FnArgs("none", <<>>, Parts("none", <<>>, <<>>, <<>>, <<>>), <<>>, <<>>, 0)

\* the calls: resolveModelUrl of paths, of "http://h/m.stl" and "file:///m.stl",
\* and of "C:/m.stl" and "C:\m.stl", without a project base and with "http://h",
\* "http://h/", "http://h/api" and "b"; extractPackageInfoFromNodeModulesPath of
\* paths; batchedUnion of lists of geometries, a geometry being the set of the
\* solids it is the union of
FnInputs ==
  LET pathOf(parts) == parts.prefix \o parts.dir \o parts.pkg \o parts.rest
      bases == {<<>>, BaseH, BaseH \o <<"/">>, BaseH \o <<"/", "a", "p", "i">>, BaseBad}
      noParts(class) == Parts(class, <<>>, <<>>, <<>>, <<>>)
  IN  {FnArgs("resolveModelUrl", pathOf(parts), parts, base, <<>>, 0) :
         parts \in PathInputs, base \in bases}
        \cup {FnArgs("resolveModelUrl", url, noParts("scheme"), base, <<>>, 0) :
                url \in {<<"h", "t", "t", "p", ":", "/", "/", "h", "/", "m", ".", "s", "t", "l">>,
                         <<"f", "i", "l", "e", ":", "/", "/", "/", "m", ".", "s", "t", "l">>},
                base \in bases}
        \cup {FnArgs("resolveModelUrl", url, noParts("windows"), base, <<>>, 0) :
                url \in {<<"C", ":", "/", "m", ".", "s", "t", "l">>,
                         <<"C", ":", "\\", "m", ".", "s", "t", "l">>},
                base \in bases}
        \cup {FnArgs("extractPackageInfoFromNodeModulesPath", pathOf(parts), parts,
                     <<>>, <<>>, 0) : parts \in PathInputs}
        \cup {FnArgs("batchedUnion", <<>>, noParts("none"), <<>>, geoms, batchSize) :
                geoms \in SeqsUpTo({{1}, {2}}, MaxGeoms),
                batchSize \in {0, 1, 2, DEFAULT_BATCH_SIZE}}

\* nothing computed; value is the list of the returned value, empty for undefined
NoFnOut ==
  [url |-> <<>>, info |-> NullPackageInfo, results |-> <<>>, unionCalls |-> 0,
   passes |-> 0, operands |-> <<>>, value |-> <<>>]

Call_resolveModelUrl ==
  /\ fnPc = "ready"
  /\ fnArgs.fn = "resolveModelUrl"
  /\ LET resolved == resolveModelUrl(fnArgs.url, fnArgs.projectBaseUrl, isNodeRuntime)
     IN  /\ fnPc' = IF resolved.threw THEN "threw" ELSE "returned"
         /\ fnOut' = [fnOut EXCEPT !.url = resolved.url]
  /\ UNCHANGED <<loaderVars, convVars, fnArgs>>

Call_extractPackageInfoFromNodeModulesPath ==
  /\ fnPc = "ready"
  /\ fnArgs.fn = "extractPackageInfoFromNodeModulesPath"
  /\ fnPc' = "returned"
  /\ fnOut' = [fnOut EXCEPT !.info = extractPackageInfoFromNodeModulesPath(fnArgs.url)]
  /\ UNCHANGED <<loaderVars, convVars, fnArgs>>

\* union(...batch) of @jscad/modeling
union(batch) == UNION {batch[i] : i \in 1..Len(batch)}

\* an entry without the test for an empty list
batchedUnionEntry_Unchecked(geoms) ==
  IF Len(geoms) = 1 THEN [pc |-> "returned", results |-> <<>>, value |-> <<geoms[1]>>]
  ELSE [pc |-> "loop", results |-> geoms, value |-> <<>>]

\* batched-union.ts lines 17-25: the entry of batchedUnion
batchedUnionEntry(geoms) ==
  IF Len(geoms) = 0 THEN [pc |-> "threw", results |-> <<>>, value |-> <<>>]
  ELSE IF Len(geoms) = 1 THEN [pc |-> "returned", results |-> <<>>, value |-> <<geoms[1]>>]
  ELSE [pc |-> "loop", results |-> geoms, value |-> <<>>]

batchedUnion_Enter ==
  /\ fnPc = "ready"
  /\ fnArgs.fn = "batchedUnion"
  /\ LET entry == batchedUnionEntry(fnArgs.geoms)
     IN  /\ fnPc' = entry.pc
         /\ fnOut' = [fnOut EXCEPT !.results = entry.results, !.value = entry.value]
  /\ UNCHANGED <<loaderVars, convVars, fnArgs>>

RECURSIVE Batches(_, _)
\* lines 28-29: results.slice(i, i + batchSize) for i = 0, batchSize, ...
Batches(results, batchSize) ==
  IF results = <<>> THEN <<>>
  ELSE LET n == IF batchSize < Len(results) THEN batchSize ELSE Len(results)
       IN  <<SubSeq(results, 1, n)>>
             \o Batches(SubSeq(results, n + 1, Len(results)), batchSize)

\* passes of the while loop followed in one call
MaxPasses == 3

\* lines 26-37: one pass of the while loop, with the number of operands of
\* each union call it makes; with a batch size below one the first batch is
\* empty and union() of no geometry throws
batchedUnion_Pass ==
  /\ fnPc = "loop"
  /\ Len(fnOut.results) > 1
  /\ fnOut.passes < MaxPasses
  /\ IF fnArgs.batchSize < 1
     THEN /\ fnPc' = "threw"
          /\ fnOut' = [fnOut EXCEPT !.unionCalls = @ + 1, !.passes = @ + 1,
                                    !.operands = Append(@, 0)]
     ELSE LET batches == Batches(fnOut.results, fnArgs.batchSize)
              newResults == [k \in 1..Len(batches) |->
                               IF Len(batches[k]) = 1 THEN batches[k][1]
                               ELSE union(batches[k])]
              unions == SelectSeq(batches, LAMBDA batch : Len(batch) # 1)
          IN  /\ fnOut' = [fnOut EXCEPT !.results = newResults,
                                        !.unionCalls = @ + Len(unions),
                                        !.passes = @ + 1,
                                        !.operands = @ \o [k \in 1..Len(unions) |->
                                                             Len(unions[k])]]
              /\ UNCHANGED fnPc
  /\ UNCHANGED <<loaderVars, convVars, fnArgs>>

\* line 38: the loop has ended
batchedUnion_Return ==
  /\ fnPc = "loop"
  /\ Len(fnOut.results) <= 1
  /\ fnPc' = "returned"
  /\ fnOut' = [fnOut EXCEPT !.value = SubSeq(fnOut.results, 1, 1)]
  /\ UNCHANGED <<loaderVars, convVars, fnArgs>>

(***************************************************************************)
(* camera-position.ts: getBestCameraPosition.  Lengths are in hundredths   *)
(* of a millimetre, unit vectors and tangents in thousandths, quotients    *)
(* are truncated.                                                          *)
(***************************************************************************)
\* a / b truncated towards zero
Quot(a, b) == IF a >= 0 THEN a \div b ELSE 0 - ((0 - a) \div b)

Abs(a) == IF a >= 0 THEN a ELSE 0 - a

\* [-0.7, 1.2, -0.8]
DEFAULT_CAMERA_DIRECTION == <<-700, 1200, -800>>

\* lines 29-41: a vector scaled to length 1; the zero vector gives [0, 1, 0]
normalizeVector(v) ==
  LET length == Sqrt(v[1] * v[1] + v[2] * v[2] + v[3] * v[3])
  IN  IF length = 0 THEN <<0, 1000, 0>>
      ELSE <<Quot(v[1] * 1000, length), Quot(v[2] * 1000, length),
             Quot(v[3] * 1000, length)>>

\* lines 43-48, for a length and a unit vector
dot(a, b) == Quot(a[1] * b[1] + a[2] * b[2] + a[3] * b[3], 1000)

\* lines 50-55, for two unit vectors
cross(a, b) ==
  <<Quot(a[2] * b[3] - a[3] * b[2], 1000), Quot(a[3] * b[1] - a[1] * b[3], 1000),
    Quot(a[1] * b[2] - a[2] * b[1], 1000)>>

\* lines 57-80 for a call without focalLength: fov ?? 50, and 50 for a value
\* that is not positive; 0 stands for an absent fov
getVerticalFovDegrees(fov) ==
  IF fov <= 0 THEN 50 ELSE MinOf({MaxOf({fov, 1}), 179})

\* Math.tan(verticalFov / 2) for the fields of view of the calls
TanHalf(fovDegrees) ==
  CASE fovDegrees = 50 -> 466
    [] fovDegrees = 90 -> 1000

\* lines 82-109
getRequiredDistanceForFrustum(corners, cameraDirection, right, up, tanHalfHorizontal, tanHalfVertical) ==
  MaxOf({0}
    \cup {dot(corners[i], cameraDirection)
            + Quot(Abs(dot(corners[i], right)) * 1000, tanHalfHorizontal) :
            i \in 1..Len(corners)}
    \cup {dot(corners[i], cameraDirection)
            + Quot(Abs(dot(corners[i], up)) * 1000, tanHalfVertical) :
            i \in 1..Len(corners)})

\* an absent pcb_panel or pcb_board record
NoSurface == [present |-> FALSE, width |-> 0, height |-> 0, center |-> [x |-> 0, y |-> 0]]

SurfaceRecord(width, height, centerX, centerY) ==
  [present |-> TRUE, width |-> width, height |-> height,
   center |-> [x |-> centerX, y |-> centerY]]

\* lines 141-145 and 152-156
FallbackCameraPosition(fov) ==
  [camPos |-> <<3000, 3000, 2500>>, lookAt |-> <<0, 0, 0>>, fov |-> fov]

\* line 151: !width || !height || !center, for a record that has a center
hasNoExtent(surface) == surface.width = 0 \/ surface.height = 0

\* lines 119-243, for the default direction and aspect ratio
getBestCameraPosition(panel, board, fov) ==
  LET verticalFovDegrees == getVerticalFovDegrees(fov)
      surface == IF panel.present THEN panel ELSE board
      cameraDirection == normalizeVector(DEFAULT_CAMERA_DIRECTION)
      forward == <<0 - cameraDirection[1], 0 - cameraDirection[2], 0 - cameraDirection[3]>>
      right == normalizeVector(cross(forward, <<0, 1000, 0>>))
      up == normalizeVector(cross(right, forward))
      tanHalfVertical == TanHalf(verticalFovDegrees)
      tanHalfHorizontal == (tanHalfVertical * 4) \div 3
      halfWidth == surface.width \div 2
      halfHeight == surface.height \div 2
      boardCorners == <<<<halfWidth, 0, halfHeight>>, <<halfWidth, 0, 0 - halfHeight>>,
                        <<0 - halfWidth, 0, halfHeight>>,
                        <<0 - halfWidth, 0, 0 - halfHeight>>>>
      requiredDistance ==
        MaxOf({getRequiredDistanceForFrustum(boardCorners, cameraDirection, right, up,
                                             tanHalfHorizontal, tanHalfVertical),
               getRequiredDistanceForFrustum(boardCorners, cameraDirection, right, up,
                                             tanHalfVertical,
                                             (tanHalfVertical * 3) \div 4)})
      distance == MaxOf({requiredDistance, 100})
      camX == surface.center.x + Quot(cameraDirection[1] * distance, 1000)
      camY == Quot(cameraDirection[2] * distance, 1000)
      camZ == surface.center.y + Quot(cameraDirection[3] * distance, 1000)
  IN  IF ~surface.present \/ hasNoExtent(surface)
      THEN FallbackCameraPosition(verticalFovDegrees)
      ELSE [camPos |-> <<0 - camX, camY, camZ>>,
            lookAt |-> <<0 - surface.center.x, 0, surface.center.y>>,
            fov |-> verticalFovDegrees]

\* the calls of getBestCameraPosition: no panel, the 100 x 80 panel or a panel
\* without area; no board, the 30 x 20 board, a board of 0.01 x 0.01, a board
\* without area and one without width; fov absent, 50 and 90
CameraInputs ==
  {[fn |-> "getBestCameraPosition", panel |-> panel, board |-> board, fov |-> fov] :
     panel \in {NoSurface, SurfaceRecord(10000, 8000, 0, 0), SurfaceRecord(0, 0, 0, 0)},
     board \in {NoSurface, SurfaceRecord(3000, 2000, 500, 300), SurfaceRecord(1, 1, 500, 300),
                SurfaceRecord(0, 0, 500, 300), SurfaceRecord(0, 2000, 500, 300)},
     fov \in {0, 50, 90}}

Call_getBestCameraPosition ==
  /\ fnPc = "ready"
  /\ fnArgs.fn = "getBestCameraPosition"
  /\ fnPc' = "returned"
  /\ fnOut' = [fnOut EXCEPT !.value =
       <<getBestCameraPosition(fnArgs.panel, fnArgs.board, fnArgs.fov)>>]
  /\ UNCHANGED <<loaderVars, convVars, fnArgs>>

(***************************************************************************)
(* pcb-panel-geometry.ts: createPanelMesh and the calls it makes to the    *)
(* boolean kernel.                                                         *)
(***************************************************************************)
\* most holes of a panel: one more than the default batch size
MaxHoles == DEFAULT_BATCH_SIZE + 1

\* createHoleGeoms and createCutoutGeoms: one solid per hole and per cutout
createSubtractGeoms(holes, cutouts) ==
  [i \in 1..(holes + cutouts) |-> IF i <= holes THEN "hole" ELSE "cutout"]

\* lines 19-27: the calls of the boolean kernel made for a panel with that
\* many holes and cutouts, each with its number of subtraction operands
createPanelMesh(holes, cutouts) ==
  LET subtractGeoms == createSubtractGeoms(holes, cutouts)
  IN  [kernelCalls |-> IF Len(subtractGeoms) > 0
                       THEN <<[operation |-> "subtract", operands |-> Len(subtractGeoms)]>>
                       ELSE <<>>,
       subtracted |-> Len(subtractGeoms)]

\* the calls of createPanelMesh: panels with no hole, one hole, a full batch of
\* holes and one more, and with up to two cutouts
PanelMeshInputs ==
  {[fn |-> "createPanelMesh", holes |-> holes, cutouts |-> cutouts] :
     holes \in {0, 1, DEFAULT_BATCH_SIZE, MaxHoles}, cutouts \in 0..2}

Call_createPanelMesh ==
  /\ fnPc = "ready"
  /\ fnArgs.fn = "createPanelMesh"
  /\ fnPc' = "returned"
  /\ fnOut' = [fnOut EXCEPT !.value = <<createPanelMesh(fnArgs.holes, fnArgs.cutouts)>>]
  /\ UNCHANGED <<loaderVars, convVars, fnArgs>>

(***************************************************************************)
(* step.ts: convertOcctResultToMesh and convertToOBJMesh.  A colour of the *)
(* kernel is a triple in thousandths, <<>> is null or undefined; a         *)
(* triangle carries the sub-mesh and index it was built from in place of   *)
(* its vertices and normal.                                                *)
(***************************************************************************)
\* Math.round(c * 255)
Round255(c) == (c * 255 + 500) \div 1000

\* lines 439-444 and 452-457
ByteColor(color) == <<Round255(color[1]), Round255(color[2]), Round255(color[3]), 1>>

RECURSIVE triangleColor_AnyFace(_, _, _, _)
\* a lookup that stops at the first face range containing the triangle, with
\* or without a colour
triangleColor_AnyFace(t, brepFaces, i, meshColor) ==
  IF i > Len(brepFaces)
  THEN IF meshColor # <<>> THEN ByteColor(meshColor) ELSE <<>>
  ELSE IF t >= brepFaces[i].first /\ t <= brepFaces[i].last
  THEN IF brepFaces[i].color # <<>> THEN ByteColor(brepFaces[i].color) ELSE <<>>
  ELSE triangleColor_AnyFace(t, brepFaces, i + 1, meshColor)

RECURSIVE triangleColor(_, _, _, _)
\* lines 433-458: the loop over brepFaces from face i on, then the mesh colour
triangleColor(t, brepFaces, i, meshColor) ==
  IF i > Len(brepFaces)
  THEN IF meshColor # <<>> THEN ByteColor(meshColor) ELSE <<>>
  ELSE IF t >= brepFaces[i].first /\ t <= brepFaces[i].last /\ brepFaces[i].color # <<>>
  THEN ByteColor(brepFaces[i].color)
  ELSE triangleColor(t, brepFaces, i + 1, meshColor)

\* lines 374-466: the triangles of sub-mesh m
meshTriangles(m, mesh) ==
  [k \in 1..mesh.numTriangles |->
     [mesh |-> m, index |-> k - 1,
      color |-> triangleColor(k - 1, mesh.brep_faces, 1, mesh.color)]]

RECURSIVE allTriangles(_, _)
allTriangles(meshes, m) ==
  IF m > Len(meshes) THEN <<>>
  ELSE meshTriangles(m, meshes[m]) \o allTriangles(meshes, m + 1)

\* transformTriangles: vertices and normals are mapped, colours are kept
transformTriangles(triangles) == triangles

RECURSIVE colorGroups(_, _)
\* lines 487-495: the keys of colorGroups in insertion order; <<>> is "default"
colorGroups(triangles, keys) ==
  IF triangles = <<>> THEN keys
  ELSE colorGroups(Tail(triangles),
                   IF \E k \in 1..Len(keys) : keys[k] = Head(triangles).color
                   THEN keys ELSE Append(keys, Head(triangles).color))

RECURSIVE groupedTriangles(_, _, _)
\* lines 503-528: the triangles group by group, tagged with the group's index
groupedTriangles(triangles, keys, materialIndex) ==
  IF materialIndex >= Len(keys) THEN <<>>
  ELSE LET group == SelectSeq(triangles, LAMBDA tri : tri.color = keys[materialIndex + 1])
       IN  [k \in 1..Len(group) |->
              [mesh |-> group[k].mesh, index |-> group[k].index, color |-> group[k].color,
               materialIndex |-> materialIndex]]
             \o groupedTriangles(triangles, keys, materialIndex + 1)

\* lines 486-536; material k is named Material_k
convertToOBJMesh(triangles) ==
  LET keys == colorGroups(triangles, <<>>)
  IN  [triangles |-> groupedTriangles(triangles, keys, 0),
       hasMaterials |-> TRUE,
       materials |-> [k \in 1..Len(keys) |->
                        [name |-> k - 1,
                         color |-> IF keys[k] = <<>> THEN <<179, 179, 179, 1>> ELSE keys[k]]]]

\* lines 368-484
convertOcctResultToMesh(meshes) ==
  LET transformedTriangles == transformTriangles(allTriangles(meshes, 1))
      hasColors == \E k \in 1..Len(transformedTriangles) :
                     transformedTriangles[k].color # <<>>
  IN  IF hasColors THEN convertToOBJMesh(transformedTriangles)
      ELSE [triangles |-> transformedTriangles, hasMaterials |-> FALSE, materials |-> <<>>]

\* most sub-meshes of a kernel result
MaxMeshes == 2

BrepFace(first, last, color) == [first |-> first, last |-> last, color |-> color]

\* the sub-meshes of the kernel results: up to two triangles; no face range, a
\* range without colour in front of a coloured one, two overlapping coloured
\* ranges, a range for the second triangle only whose colour rounds like red;
\* with and without a mesh colour
OcctMeshes ==
  LET red == <<1000, 0, 0>>
      nearRed == <<999, 0, 0>>
      blue == <<0, 0, 1000>>
      green == <<0, 1000, 0>>
  IN  {[numTriangles |-> n, brep_faces |-> faces, color |-> color] :
         n \in 0..2,
         faces \in {<<>>,
                    <<BrepFace(0, 0, <<>>), BrepFace(0, 1, red)>>,
                    <<BrepFace(0, 0, red), BrepFace(0, 1, blue)>>,
                    <<BrepFace(1, 1, nearRed)>>},
         color \in {<<>>, green}}

OcctInputs ==
  {[fn |-> "convertOcctResultToMesh", meshes |-> meshes] :
     meshes \in SeqsUpTo(OcctMeshes, MaxMeshes)}

Call_convertOcctResultToMesh ==
  /\ fnPc = "ready"
  /\ fnArgs.fn = "convertOcctResultToMesh"
  /\ fnPc' = "returned"
  /\ fnOut' = [fnOut EXCEPT !.value = <<convertOcctResultToMesh(fnArgs.meshes)>>]
  /\ UNCHANGED <<loaderVars, convVars, fnArgs>>

(***************************************************************************)
(* Specifications.                                                         *)
(***************************************************************************)
\* the records of circuitJson the call reads
CircuitJson(hasPanel, hasBoard, pcbComponents, cadComponents) ==
  [pcb_panel |-> hasPanel, pcb_board |-> hasBoard, pcb_cutouts |-> <<>>,
   pcb_components |-> pcbComponents, cad_components |-> cadComponents]

\* the options of a call without textures, faux board, transform, base and headers
PlainOptions(showBoundingBoxes) ==
  [drawFauxBoard |-> FALSE, renderBoardTextures |-> FALSE, textureResolution |-> 1024,
   coordinateTransform |-> NoTransform, projectBaseUrl |-> <<>>,
   authHeaders |-> NoAuth, showBoundingBoxes |-> showBoundingBoxes]

Input(json, opts) == [circuitJson |-> json, options |-> opts]

AllPcbComponents == [i \in 1..NumPcb |-> PcbComponent(i)]

\* inputs that vary the surface: panel, board, faux board, pcb_components and
\* textures, with no cad_component or one STL model
SurfaceInputs ==
  {Input(CircuitJson(hasPanel, hasBoard, pcbComponents, cadComponents),
         [PlainOptions(showBoundingBoxes) EXCEPT
            !.drawFauxBoard = drawFauxBoard,
            !.renderBoardTextures = shouldRenderTextures,
            !.textureResolution = textureResolution]) :
     hasPanel \in BOOLEAN, hasBoard \in BOOLEAN, pcbComponents \in PcbComponentLists,
     cadComponents \in {<<>>, <<CadComponent(1, UrlStl, <<>>, <<>>, <<>>, <<>>, <<>>,
                                             NoRotation)>>},
     drawFauxBoard \in BOOLEAN, shouldRenderTextures \in BOOLEAN,
     textureResolution \in {0, 1024}, showBoundingBoxes \in BOOLEAN}

\* inputs that vary the cad_components on a board with all pcb_components
CadInputs ==
  {Input(CircuitJson(FALSE, TRUE, AllPcbComponents, cadComponents),
         [PlainOptions(TRUE) EXCEPT !.coordinateTransform = coordinateTransform]) :
     cadComponents \in CadComponentLists,
     coordinateTransform \in {NoTransform, CustomTransform}}

\* cad_component records whose only geometry source is a STEP file, or none
StepCadComponents ==
  {c \in SimpleCadComponents : SourceCount(c) = 0 \/ c.model_step_url # <<>>}

\* inputs that vary what loadSTEP is given
StepInputs ==
  {Input(CircuitJson(FALSE, TRUE, AllPcbComponents, cadComponents),
         [PlainOptions(TRUE) EXCEPT
            !.coordinateTransform = coordinateTransform,
            !.projectBaseUrl = projectBaseUrl,
            !.authHeaders = authHeaders]) :
     cadComponents \in {Placed(list, spread) :
                          list \in SeqsUpTo(StepCadComponents, MaxCad),
                          spread \in BOOLEAN},
     coordinateTransform \in {NoTransform, CustomTransform},
     projectBaseUrl \in ProjectBases, authHeaders \in {NoAuth, AuthAB}}

\* inputs that vary the cutouts and the surface they are cut from
CutoutInputs ==
  {Input([CircuitJson(hasPanel, hasBoard, AllPcbComponents, <<>>) EXCEPT
            !.pcb_cutouts = pcbCutouts],
         PlainOptions(showBoundingBoxes)) :
     hasPanel \in BOOLEAN, hasBoard \in BOOLEAN, pcbCutouts \in PcbCutoutLists,
     showBoundingBoxes \in BOOLEAN}

Inputs == SurfaceInputs \cup CadInputs \cup StepInputs \cup CutoutInputs

\* getBrowserOrigin: there is no location in Node
Runtimes ==
  {<<TRUE, <<>>>>} \cup {<<FALSE, origin>> : origin \in BrowserOrigins}

InitLoader ==
  /\ \E runtime \in Runtimes : isNodeRuntime = runtime[1] /\ browserOrigin = runtime[2]
  /\ stepCache = EmptyMap
  /\ occtModulePromiseByKey = EmptyMap
  /\ modulePromises = <<>>
  /\ req = [r \in Callers |-> IdleReq]
  /\ calls = 0
  /\ fetchLog = <<>>

NothingCollected ==
  /\ cadIndex = 0
  /\ boxes = <<>>
  /\ pcbComponentIdsWith3D = {}
  /\ camera = NoCamera
  /\ loaderLog = <<>>
  /\ textureLog = <<>>

\* one call of convertCircuitJsonTo3D in a fresh process
Init ==
  /\ InitLoader
  /\ \E input \in Inputs : circuitJson = input.circuitJson /\ options = input.options
  /\ NothingCollected
  /\ convPc = "surface"
  /\ fnPc = "idle"
  /\ fnArgs = NoFnArgs
  /\ fnOut = NoFnOut

Convert ==
  \/ \E texturesOk \in BOOLEAN : Convert_Surface(texturesOk)
  \/ Convert_SkipCad
  \/ \E ok \in BOOLEAN : Convert_LoadMesh(ok)
  \/ Convert_CallLoadSTEP
  \/ Convert_AfterLoadSTEP
  \/ Convert_BoundingBoxes
  \/ Convert_Return

Next ==
  \/ (Convert /\ UNCHANGED fnVars)
  \/ (LoadStep(ConvCaller) /\ UNCHANGED <<convVars, fnVars>>)
  \/ (OcctStep /\ UNCHANGED <<convVars, fnVars>>)

Spec == Init /\ [][Next]_vars

\* loadSTEP and clearSTEPCache called directly by concurrent callers
InitLoad ==
  /\ InitLoader
  /\ circuitJson = CircuitJson(FALSE, FALSE, <<>>, <<>>)
  /\ options = PlainOptions(FALSE)
  /\ NothingCollected
  /\ convPc = "idle"
  /\ fnPc = "idle"
  /\ fnArgs = NoFnArgs
  /\ fnOut = NoFnOut

\* callers are numbered in the order of their first calls
MayCall(r) == \A q \in 1..(r - 1) : req[q].pc # "idle"

NextLoad ==
  \/ \E r \in Callers, url \in ModelUrls, transform \in {NoTransform, CustomTransform},
        projectBaseUrl \in ProjectBases, authHeaders \in AuthChoices :
       MayCall(r) /\ CallLoadSTEP(r, url, transform, projectBaseUrl, authHeaders)
                  /\ UNCHANGED <<convVars, fnVars>>
  \/ \E r \in Callers : LoadStep(r) /\ UNCHANGED <<convVars, fnVars>>
  \/ (OcctStep /\ UNCHANGED <<convVars, fnVars>>)
  \/ (clearSTEPCache /\ UNCHANGED <<convVars, fnVars>>)

SpecLoad == InitLoad /\ [][NextLoad]_vars

\* one direct call of a helper function in a fresh process
InitFn ==
  /\ InitLoader
  /\ circuitJson = CircuitJson(FALSE, FALSE, <<>>, <<>>)
  /\ options = PlainOptions(FALSE)
  /\ NothingCollected
  /\ convPc = "idle"
  /\ fnPc = "ready"
  /\ fnArgs \in FnInputs \cup CameraInputs \cup PanelMeshInputs \cup OcctInputs
  /\ fnOut = NoFnOut

NextFn ==
  \/ Call_resolveModelUrl
  \/ Call_extractPackageInfoFromNodeModulesPath
  \/ batchedUnion_Enter
  \/ batchedUnion_Pass
  \/ batchedUnion_Return
  \/ Call_getBestCameraPosition
  \/ Call_createPanelMesh
  \/ Call_convertOcctResultToMesh

SpecFn == InitFn /\ [][NextFn]_vars

\* one call of batchedUnion; the call goes on as long as it can take a step
InitUnion == InitFn /\ fnArgs.fn = "batchedUnion"

NextUnion ==
  \/ batchedUnion_Enter
  \/ batchedUnion_Pass
  \/ batchedUnion_Return

SpecUnion == InitUnion /\ [][NextUnion]_vars /\ WF_vars(NextUnion)

(***************************************************************************)
(* Properties.                                                             *)
(***************************************************************************)
SurfaceKinds == {"panel", "board", "faux"}

SurfaceBoxes == {i \in 1..Len(boxes) : boxes[i].kind \in SurfaceKinds}

CadBoxes == {i \in 1..Len(boxes) : boxes[i].kind = "cad"}

BoundingBoxIndexes == {i \in 1..Len(boxes) : boxes[i].kind = "bbox"}

SurfaceDone == convPc \in {"cad", "loadSTEP", "camera", "done", "rejected"}

\* C1: once the surface step of a call whose input has both a pcb_panel and a
\* pcb_board has run, scene.boxes holds exactly one surface primitive; it is
\* the panel: its mesh is the one built from the panel outline and its center
\* is the panel's center; there is no board and no faux-board primitive.
C1_PanelIsTheOnlySurface ==
  (SurfaceDone /\ circuitJson.pcb_panel /\ circuitJson.pcb_board) =>
    /\ Cardinality(SurfaceBoxes) = 1
    /\ \A i \in SurfaceBoxes :
         /\ boxes[i].kind = "panel"
         /\ boxes[i].mesh = MeshFrom(<<"pcb_panel">>)
         /\ boxes[i].center.x = PcbPanel.center.x
         /\ boxes[i].center.z = PcbPanel.center.y

\* C1 witness: a finished call on an input with a panel and a board whose
\* scene holds the panel primitive
C1_Witness ==
  /\ convPc = "done"
  /\ circuitJson.pcb_panel /\ circuitJson.pcb_board
  /\ \E i \in SurfaceBoxes : boxes[i].kind = "panel"

FailedCalls(loaders) ==
  {k \in 1..Len(loaderLog) : loaderLog[k].loader \in loaders /\ ~loaderLog[k].ok}

\* C2: when the STEP or the GLB loader of a cad_component fails, the call goes
\* on: the component's primitive is in scene.boxes without a mesh and with
\* componentColor, the loop has moved to the next component, and a call that
\* rejects does so on another loader's failure.
C2_StepAndGlbFailuresDegrade ==
  \A k \in FailedCalls({"step", "glb"}) :
    /\ \E i \in CadBoxes :
         /\ boxes[i].ref = loaderLog[k].cad
         /\ boxes[i].mesh = NoMesh
         /\ boxes[i].color = ComponentColor
    /\ cadIndex > loaderLog[k].cad
    /\ convPc = "rejected" => k < Len(loaderLog)

\* C2 witness: a call that has returned its scene after a STEP load and a GLB
\* load failed
C2_Witness ==
  /\ convPc = "done"
  /\ FailedCalls({"step"}) # {}
  /\ FailedCalls({"glb"}) # {}

\* C3: when the STL, OBJ, GLTF or footprinter loader of a cad_component fails,
\* the call rejects: no scene is returned, the failed component has no
\* primitive, no later cad_component is processed and no bounding box is made.
C3_OtherFailuresPropagate ==
  \A k \in FailedCalls({"stl", "obj", "gltf", "footprinter"}) :
    /\ convPc = "rejected"
    /\ camera = NoCamera
    /\ k = Len(loaderLog)
    /\ cadIndex = loaderLog[k].cad
    /\ \A i \in CadBoxes : boxes[i].ref < loaderLog[k].cad
    /\ BoundingBoxIndexes = {}

\* C3 witness: the first of two cad_components failed in the GLTF loader, and
\* the input asks for bounding boxes
C3_Witness ==
  /\ convPc = "rejected"
  /\ Len(circuitJson.cad_components) = 2
  /\ options.showBoundingBoxes
  /\ \E k \in FailedCalls({"gltf"}) : loaderLog[k].cad = 1

InFlight(r) == req[r].pc \in {"fetching", "awaitingOcct"}

\* C4: two loadSTEP calls with the same cache key are never both in flight
\* with a fetch of their own: the later one shares the first one's operation.
C4_SingleFlightPerKey ==
  \A r1, r2 \in Callers :
    (r1 # r2 /\ InFlight(r1) /\ InFlight(r2)) => req[r1].cacheKey # req[r2].cacheKey

\* the cache key loadSTEP computes for a cad_component of the call
StepKeyOf(cad) ==
  LET resolved == resolveModelUrl(cad.model_step_url, options.projectBaseUrl,
                                  isNodeRuntime)
  IN  [threw |-> resolved.threw,
       key |-> StepCacheKey(resolved.url, defaultTransform(cad))]

CadIndexes == 1..Len(circuitJson.cad_components)

\* cad_component i is loaded by loadSTEP with a URL that resolves
StepModel(i) ==
  /\ SelectedLoader(circuitJson.cad_components[i]) = "step"
  /\ ~StepKeyOf(circuitJson.cad_components[i]).threw

\* cad_components i and j, both settled, are loaded by loadSTEP with the same
\* resolved URL and transform
SameStepModel(i, j) ==
  /\ i < j
  /\ j < cadIndex
  /\ StepModel(i)
  /\ StepModel(j)
  /\ StepKeyOf(circuitJson.cad_components[i]) = StepKeyOf(circuitJson.cad_components[j])

\* no cad_component from lo to hi is loaded with the URL and transform of i
NoneLike(i, lo, hi) ==
  \A m \in lo..hi :
    StepModel(m) =>
      StepKeyOf(circuitJson.cad_components[m]) # StepKeyOf(circuitJson.cad_components[i])

LogOf(i) == loaderLog[CHOOSE k \in 1..Len(loaderLog) : loaderLog[k].cad = i]

BoxOf(i) == boxes[CHOOSE k \in CadBoxes : boxes[k].ref = i]

\* the fetches issued by the loadSTEP calls of cad_components i and j
FetchesOf(i, j) ==
  {k \in 1..Len(fetchLog) : fetchLog[k].call \in {LogOf(i).call, LogOf(j).call}}

\* C5 as stated: the first two cad_components with one resolved URL and
\* transform cause exactly one fetch of the file.
C5_ExactlyOneFetch ==
  \A i, j \in CadIndexes :
    (SameStepModel(i, j) /\ NoneLike(i, 1, i - 1) /\ NoneLike(i, i + 1, j - 1)) =>
      Cardinality(FetchesOf(i, j)) = 1

\* C5 amended: of two cad_components with the same resolved URL and transform,
\* when the load of the first succeeds the second gets the mesh the first
\* got, without a fetch, so that the two cause exactly one fetch of the file
\* when the first is the first to name it; when the load of the first fails,
\* the next one to name the file fetches it itself.
C5_OneFetchAfterSuccess ==
  \A i, j \in CadIndexes :
    SameStepModel(i, j) =>
      IF LogOf(i).ok
      THEN /\ \A k \in FetchesOf(i, j) : fetchLog[k].call = LogOf(i).call
           /\ NoneLike(i, 1, i - 1) => Cardinality(FetchesOf(i, j)) = 1
           /\ LogOf(j).ok
           /\ BoxOf(j).mesh = BoxOf(i).mesh
           /\ BoxOf(j).mesh # NoMesh
      ELSE NoneLike(i, i + 1, j - 1) =>
             \E k \in FetchesOf(i, j) : fetchLog[k].call = LogOf(j).call

\* C5 witness: the second of two cad_components naming one file by two
\* spellings got the mesh of the first
C5_Witness ==
  /\ convPc = "done"
  /\ \E i, j \in CadIndexes :
       /\ SameStepModel(i, j)
       /\ circuitJson.cad_components[i].model_step_url
            # circuitJson.cad_components[j].model_step_url
       /\ LogOf(i).ok
       /\ BoxOf(j).mesh = BoxOf(i).mesh

\* C6: in the step in which a loadSTEP call fails after its cache lookup, the
\* mesh cache holds no entry for the call's key.
C6_NoEntryAfterFailure ==
  [][\A r \in Callers :
       (InFlight(r) /\ req'[r].pc = "rejected") =>
         ~(req[r].cacheKey \in DOMAIN stepCache')]_vars

\* the header names and values, whatever their order
HeaderSet(authHeaders) == {authHeaders[i] : i \in 1..Len(authHeaders)}

Awaiting(r) == req[r].pc = "awaitingOcct"

Live(p) == modulePromises[p].status # "rejected"

EffectiveBase(r) ==
  IF req[r].projectBaseUrl # <<>> THEN req[r].projectBaseUrl ELSE browserOrigin

CandidateRank(candidate) ==
  IF candidate.url = OCCT_WASM_CDN_URLS[2] THEN 4
  ELSE IF candidate.url = OCCT_WASM_CDN_URLS[1] THEN 3
  ELSE IF candidate.useAuthHeaders THEN 1
  ELSE 2

BrowserPromises ==
  {p \in 1..Len(modulePromises) : modulePromises[p].pc \in {"candidates", "done"}
                                    /\ ~isNodeRuntime}

\* C8: a browser initialisation lists its candidates in the order
\* project-relative, origin-relative, first mirror, second mirror; its attempts
\* follow the list without a gap; every attempt but the last one made has
\* failed; a successful attempt resolves the initialisation; it is rejected
\* only when every candidate was attempted and failed.
C8_CandidatesInPriorityOrder ==
  \A p \in BrowserPromises :
    LET candidates == modulePromises[p].wasmCandidates
        attempts   == modulePromises[p].attempts
    IN  /\ \A i, j \in 1..Len(candidates) :
             i < j => CandidateRank(candidates[i]) < CandidateRank(candidates[j])
        /\ Len(attempts) <= Len(candidates)
        /\ \A k \in 1..Len(attempts) :
             /\ attempts[k].candidate = k
             /\ k < Len(attempts) => ~attempts[k].ok
             /\ attempts[k].ok => modulePromises[p].status = "resolved"
        /\ modulePromises[p].status = "resolved" =>
             (attempts # <<>> /\ attempts[Len(attempts)].ok)
        /\ modulePromises[p].status = "rejected" =>
             /\ Len(attempts) = Len(candidates)
             /\ \A k \in 1..Len(attempts) : ~attempts[k].ok

\* C8 witness: an initialisation with all four candidates that succeeded on
\* the last one
C8_Witness ==
  \E p \in BrowserPromises :
    /\ Len(modulePromises[p].wasmCandidates) = 4
    /\ Len(modulePromises[p].attempts) = 4
    /\ modulePromises[p].status = "resolved"

\* C9: the primitives of the cad_components are in scene.boxes in input
\* order; bounding boxes exist only once the cad_component loop has ended, and
\* all of them come after all cad_component primitives; no pcb_component
\* named by a cad_component that has a geometry source has a bounding box.
C9_CadPassThenBoundingBoxes ==
  /\ \A i, j \in CadBoxes : i < j => boxes[i].ref < boxes[j].ref
  /\ \A k1, k2 \in 1..Len(loaderLog) : k1 < k2 => loaderLog[k1].cad < loaderLog[k2].cad
  /\ BoundingBoxIndexes # {} =>
       (convPc \in {"camera", "done"} /\ cadIndex > Len(circuitJson.cad_components))
  /\ \A i \in CadBoxes, b \in BoundingBoxIndexes : i < b
  /\ \A b \in BoundingBoxIndexes, c \in CadIndexes :
       hasModelSource(circuitJson.cad_components[c]) =>
         boxes[b].ref # circuitJson.cad_components[c].pcb_component_id

\* C9 witness: a scene with the primitives of two cad_components of one
\* pcb_component and the bounding box of the other pcb_component
C9_Witness ==
  /\ convPc = "done"
  /\ Cardinality(CadBoxes) = 2
  /\ \E b \in BoundingBoxIndexes : boxes[b].ref = 2
  /\ \A b \in BoundingBoxIndexes : boxes[b].ref # 1

FlipAboutZ == convertRotationFromCadRotation([x |-> 0, y |-> 0, z |-> 180])

FlipAboutX == convertRotationFromCadRotation([x |-> 180, y |-> 0, z |-> 0])

\* C10: the primitive of a cad_component without rotation on the bottom layer
\* is flipped by 180 degrees, about Z when the model loaded is a GLB, GLTF or
\* footprinter model and about X when it is an STL or OBJ model; on the top
\* layer it has no rotation.
C10_FlipAxisFollowsLoadedModel ==
  \A i \in CadBoxes :
    LET cad == circuitJson.cad_components[boxes[i].ref]
    IN  ~cad.rotation.given =>
          IF isBottomLayer(cad)
          THEN /\ boxes[i].rotation \in {FlipAboutZ, FlipAboutX}
               /\ SelectedLoader(cad) \in {"glb", "gltf", "footprinter"} =>
                    boxes[i].rotation = FlipAboutZ
               /\ SelectedLoader(cad) \in {"stl", "obj"} =>
                    boxes[i].rotation = FlipAboutX
          ELSE boxes[i].rotation = NoRotation

\* the cad.rotation of a record, in radians, axis by axis
RotationKept(cad) ==
  convertRotationFromCadRotation(
    [x |-> cad.rotation.x, y |-> cad.rotation.y, z |-> cad.rotation.z])

\* the cad.rotation of a record, in radians, with the Y and Z components swapped
RotationSwapped(cad) ==
  convertRotationFromCadRotation(
    [x |-> cad.rotation.x, y |-> cad.rotation.z, z |-> cad.rotation.y])

\* C11: the primitive of a cad_component with an explicit rotation carries the
\* rotation in radians; its Y and Z components are swapped when the model
\* loaded is a GLB or GLTF model, and every component stays on its own axis
\* when it is an STL, OBJ, STEP or footprinter model.
C11_AxesSwappedForSceneFormatsOnly ==
  \A i \in CadBoxes :
    LET cad == circuitJson.cad_components[boxes[i].ref]
    IN  cad.rotation.given =>
          boxes[i].rotation = IF SelectedLoader(cad) \in {"glb", "gltf"}
                              THEN RotationSwapped(cad)
                              ELSE RotationKept(cad)

\* the loaders in the order of their precedence
LoaderPrecedence == <<"stl", "obj", "glb", "gltf", "step", "footprinter">>

\* the geometry source of a record that a loader reads
SourceFor(cad, loader) ==
  CASE loader = "stl" -> cad.model_stl_url
    [] loader = "obj" -> cad.model_obj_url
    [] loader = "glb" -> cad.model_glb_url
    [] loader = "gltf" -> cad.model_gltf_url
    [] loader = "step" -> cad.model_step_url
    [] OTHER -> cad.footprinter_string

\* the first loader, by precedence, whose source the record carries
PreferredLoader(cad) ==
  LoaderPrecedence[MinOf({k \in 1..Len(LoaderPrecedence) :
                           SourceFor(cad, LoaderPrecedence[k]) # <<>>})]

InvocationsFor(i) == {k \in 1..Len(loaderLog) : loaderLog[k].cad = i}

\* C12: for a cad_component at most one loader is invoked, exactly one once a
\* component with a geometry source has been processed and none for a
\* component without one; the loader is the first of STL, OBJ, GLB, GLTF, STEP,
\* footprinter whose source the record carries, it is given that source, and
\* the footprinter loader is invoked only for a record without any URL.
C12_OneLoaderByPrecedence ==
  \A i \in CadIndexes :
    LET cad == circuitJson.cad_components[i]
    IN  /\ Cardinality(InvocationsFor(i)) <= 1
        /\ SourceCount(cad) = 0 => InvocationsFor(i) = {}
        /\ (SourceCount(cad) > 0 /\ i < cadIndex) => Cardinality(InvocationsFor(i)) = 1
        /\ \A k \in InvocationsFor(i) :
             /\ loaderLog[k].loader = PreferredLoader(cad)
             /\ loaderLog[k].source = SourceFor(cad, PreferredLoader(cad))
             /\ loaderLog[k].loader = "footprinter" =>
                  \A n \in 1..5 : SourceFor(cad, LoaderPrecedence[n]) = <<>>

\* C12 witness: a returned scene for a record that carries a GLB URL, a GLTF
\* URL, a STEP URL and a footprint string, for which the GLB loader ran
C12_Witness ==
  /\ convPc = "done"
  /\ \E i \in CadIndexes :
       LET cad == circuitJson.cad_components[i]
       IN  /\ cad.model_stl_url = <<>> /\ cad.model_obj_url = <<>>
           /\ cad.model_glb_url # <<>> /\ cad.model_gltf_url # <<>>
           /\ cad.model_step_url # <<>> /\ cad.footprinter_string # <<>>
           /\ \E k \in InvocationsFor(i) : loaderLog[k].loader = "glb"

PanelBoxes == {i \in SurfaceBoxes : boxes[i].kind = "panel"}

BoardBoxes == {i \in SurfaceBoxes : boxes[i].kind = "board"}

\* the pcb_cutout records of the input
Cutouts == {circuitJson.pcb_cutouts[k] : k \in 1..Len(circuitJson.pcb_cutouts)}

\* the cutouts subtracted from the mesh of a primitive
SubtractedFrom(i) == {boxes[i].cutouts[k] : k \in 1..Len(boxes[i].cutouts)}

CutoutRect == PcbCutout("cutout_rect", "rect", "board1")

CutoutCircle == PcbCutout("cutout_circle", "circle", "")

\* a panel, a board, a rectangle cutout that references the board and a circle
\* cutout without a board reference
PanelBoardCutoutScenario ==
  /\ circuitJson.pcb_panel
  /\ circuitJson.pcb_board
  /\ circuitJson.pcb_cutouts = <<CutoutRect, CutoutCircle>>

\* a cutout with a board reference is subtracted from no mesh but the mesh of
\* the board it references; a cutout without one is subtracted from the panel
\* mesh
CutoutsAreScoped ==
  /\ \A i \in SurfaceBoxes : \A c \in SubtractedFrom(i) :
       c.pcb_board_id # "" =>
         (boxes[i].kind = "board" /\ c.pcb_board_id = PcbBoard.pcb_board_id)
  /\ \A i \in PanelBoxes : \A c \in Cutouts :
       c.pcb_board_id = "" => c \in SubtractedFrom(i)
  /\ \A i \in SurfaceBoxes : SubtractedFrom(i) \subseteq Cutouts

\* C13 as stated: cutouts are scoped, and in the scenario there is a board
\* mesh with the rectangle removed and a panel mesh with the circle removed,
\* neither with the other's cutout.
C13_BoardAndPanelMeshesCut ==
  /\ CutoutsAreScoped
  /\ (SurfaceDone /\ PanelBoardCutoutScenario) =>
       /\ \E i \in BoardBoxes : SubtractedFrom(i) = {CutoutRect}
       /\ \E i \in PanelBoxes : SubtractedFrom(i) = {CutoutCircle}

\* C13 amended: cutouts are scoped; the mesh of a rendered board has the
\* cutouts that reference it removed; in the scenario the panel is the only
\* surface: there is no board mesh, the panel mesh has the circle removed and
\* the rectangle is removed from no mesh.
C13_CutoutsScopedOnRenderedSurface ==
  /\ CutoutsAreScoped
  /\ \A i \in BoardBoxes :
       SubtractedFrom(i) = {c \in Cutouts : c.pcb_board_id = PcbBoard.pcb_board_id}
  /\ (SurfaceDone /\ PanelBoardCutoutScenario) =>
       /\ BoardBoxes = {}
       /\ Cardinality(PanelBoxes) = 1
       /\ \A i \in PanelBoxes : SubtractedFrom(i) = {CutoutCircle}
       /\ \A i \in 1..Len(boxes) : CutoutRect \notin SubtractedFrom(i)

\* C13 witness: the scene returned for the scenario, with the circle removed
\* from the panel mesh
C13_Witness ==
  /\ convPc = "done"
  /\ PanelBoardCutoutScenario
  /\ \E i \in PanelBoxes : SubtractedFrom(i) = {CutoutCircle}

\* the pcb_component a bounding box was made for
ComponentOf(b) == circuitJson.pcb_components[boxes[b].ref]

\* C14: a bounding box has the label of its source component ("?" when it has
\* no name), the size (width, h, height) with h the least of width, height and
\* the default component height, the component fallback colour, and its
\* vertical centre is T/2 + h/2 above the board's middle plane on the top
\* layer and T/2 + h/2 below it on the bottom layer; once the bounding-box
\* pass of a call that asks for bounding boxes has run, every pcb_component
\* without a 3D representation has exactly one.
C14_BoundingBoxTouchesItsSide ==
  /\ \A b \in BoundingBoxIndexes :
       LET component == ComponentOf(b)
           name == SourceComponentName(component.source_component_id)
           h == MinOf({component.width, component.height, DEFAULT_COMPONENT_HEIGHT})
           T == effectiveBoardThickness
       IN  /\ boxes[b].label = IF name = "undefined" THEN "?" ELSE name
           /\ boxes[b].size = [x |-> component.width, y |-> h, z |-> component.height]
           /\ boxes[b].color = ComponentColor
           /\ boxes[b].center.x = component.center.x
           /\ boxes[b].center.z = component.center.y
           /\ boxes[b].center.y = IF component.layer = "bottom"
                                  THEN 0 - (T \div 2 + h \div 2)
                                  ELSE T \div 2 + h \div 2
  /\ (convPc \in {"camera", "done"} /\ options.showBoundingBoxes) =>
       \A id \in 1..Len(circuitJson.pcb_components) :
         Cardinality({b \in BoundingBoxIndexes : boxes[b].ref = id})
           = IF id \in pcbComponentIdsWith3D THEN 0 ELSE 1

FauxBoxes == {i \in SurfaceBoxes : boxes[i].kind = "faux"}

\* no panel, no board, and the one 4 x 6 mm component at (15, 5) without a
\* cad_component
OneComponentScenario ==
  /\ ~circuitJson.pcb_panel
  /\ ~circuitJson.pcb_board
  /\ circuitJson.pcb_components = <<PcbComponent(1)>>
  /\ circuitJson.cad_components = <<>>
  /\ options.showBoundingBoxes

\* C15: once the surface step has run there is a faux board primitive, and
\* only one, exactly when the input has neither panel nor board and
\* drawFauxBoard is set; its center.x and center.y are those of the centre of
\* the bounds of the pcb_components (0, 0 without components), its size.x and
\* size.z are the extent of the bounds plus twice the 2 mm margin and at least
\* 10 mm (10 mm without components), its size.y is the effective board
\* thickness.  For the one component at (15, 5) sized 4 x 6 the faux board is
\* at (15, 5) with size 10 x 10 and the returned scene has two primitives with
\* drawFauxBoard and one without.
C15_FauxBoardIffNoSurfaceRecord ==
  SurfaceDone =>
    LET components == circuitJson.pcb_components
        bounds     == findBoundsAndCenter(components)
        floor(v)   == IF v > 1000 THEN v ELSE 1000
    IN  /\ FauxBoxes # {} <=>
             (~circuitJson.pcb_panel /\ ~circuitJson.pcb_board /\ options.drawFauxBoard)
        /\ Cardinality(FauxBoxes) <= 1
        /\ \A i \in FauxBoxes :
             /\ boxes[i].size.y = effectiveBoardThickness
             /\ IF components = <<>>
                THEN /\ boxes[i].center.x = 0 /\ boxes[i].center.y = 0
                     /\ boxes[i].size.x = 1000 /\ boxes[i].size.z = 1000
                ELSE /\ boxes[i].center.x = bounds.center.x
                     /\ boxes[i].center.y = bounds.center.y
                     /\ boxes[i].size.x = floor(bounds.width + 2 * 200)
                     /\ boxes[i].size.z = floor(bounds.height + 2 * 200)
        /\ (OneComponentScenario /\ convPc = "done") =>
             /\ Len(boxes) = IF options.drawFauxBoard THEN 2 ELSE 1
             /\ \E b \in BoundingBoxIndexes : boxes[b].label = "U1"
             /\ \A i \in FauxBoxes :
                  /\ boxes[i].center.x = 1500 /\ boxes[i].center.y = 500
                  /\ boxes[i].size.x = 1000 /\ boxes[i].size.z = 1000

\* C15 witness: the scene returned for the one component with drawFauxBoard
C15_Witness ==
  /\ convPc = "done"
  /\ OneComponentScenario
  /\ options.drawFauxBoard
  /\ FauxBoxes # {}
  /\ Len(boxes) = 2

\* the camera the diagonal heuristic gives for a rectangle: it looks at the
\* centre from 1.5 times the diagonal, with up = +Y and far = 4 times that
LooksAtRectangle(centerX, centerZ, width, height) ==
  LET distance == (Sqrt(width * width + height * height) * 3) \div 2
  IN  /\ camera.target = [x |-> centerX, y |-> 0, z |-> centerZ]
      /\ camera.up = [x |-> 0, y |-> 1, z |-> 0]
      /\ camera.far = 4 * distance
      /\ camera.position.x > centerX
      /\ camera.position.y > 0
      /\ camera.position.y = (distance * 7) \div 10
      /\ camera.position.z > centerZ

\* the camera looks at the aggregate footprint of the primitives
LooksAtPrimitives ==
  LET idx  == 1..Len(boxes)
      minX == MinOf({boxes[i].center.x - boxes[i].size.x \div 2 : i \in idx})
      maxX == MaxOf({boxes[i].center.x + boxes[i].size.x \div 2 : i \in idx})
      minZ == MinOf({boxes[i].center.z - boxes[i].size.z \div 2 : i \in idx})
      maxZ == MaxOf({boxes[i].center.z + boxes[i].size.z \div 2 : i \in idx})
  IN  LooksAtRectangle((minX + maxX) \div 2, (minZ + maxZ) \div 2,
                       MaxOf({maxX - minX, 100}), MaxOf({maxZ - minZ, 100}))

\* C16: the camera of a returned scene whose input has a board or a panel
\* looks at the rendered surface, the panel when there are both: its target is
\* the surface centre, its distance 1.5 times the surface's diagonal, up is +Y
\* and far is four times the distance.  Without board and panel it looks at
\* the aggregate footprint of the primitives, and it is the fixed fallback
\* camera only when there are no primitives.
C16_CameraLooksAtRenderedSurface ==
  convPc = "done" =>
    IF circuitJson.pcb_panel
    THEN LooksAtRectangle(PcbPanel.center.x, PcbPanel.center.y,
                          PcbPanel.width, PcbPanel.height)
    ELSE IF circuitJson.pcb_board
    THEN LooksAtRectangle(PcbBoard.center.x, PcbBoard.center.y,
                          PcbBoard.width, PcbBoard.height)
    ELSE IF boxes # <<>> THEN LooksAtPrimitives
    ELSE camera = FallbackCamera

\* the renderBoardTextures invocations that threw
FailedRenders == {k \in 1..Len(textureLog) : ~textureLog[k].ok}

\* C17: renderBoardTextures is invoked only when textures are requested and
\* textureResolution is positive, at most once; when it throws, for a panel, a
\* board or a faux board alike, the surface primitive is in scene.boxes
\* without texture and with the board colour, the call goes on to the
\* cad_component loop, and it rejects only when a loader outside try/catch
\* failed.
C17_TextureFailureIsNotFatal ==
  /\ Len(textureLog) <= 1
  /\ textureLog # <<>> =>
       (options.renderBoardTextures /\ options.textureResolution > 0)
  /\ \A k \in FailedRenders :
       /\ SurfaceDone
       /\ cadIndex >= 1
       /\ \E i \in SurfaceBoxes :
            /\ boxes[i].kind = textureLog[k].surface
            /\ boxes[i].texture = "undefined"
            /\ boxes[i].color = PcbColor
       /\ convPc = "rejected" => FailedCalls({"stl", "obj", "gltf", "footprinter"}) # {}

\* C17 witness: a returned scene with a faux board whose textures failed to
\* render, the primitive of a cad_component and a bounding box
C17_Witness ==
  /\ convPc = "done"
  /\ \E k \in FailedRenders : textureLog[k].surface = "faux"
  /\ CadBoxes # {}
  /\ BoundingBoxIndexes # {}


(***************************************************************************)
(* Properties of the helper functions called directly.                     *)
(***************************************************************************)
\* the path is node_modules/..., ./node_modules/... or /node_modules/... (an
\* optional "/" followed by an optional "./" in front of node_modules/)
ReferencesNodeModules(parts) ==
  /\ parts.class = "path"
  /\ parts.prefix \in {<<>>, <<"/">>, <<".", "/">>, <<"/", ".", "/">>}
  /\ parts.dir = NODE_MODULES_DIR

\* nothing but an optional slash follows the package directory
LacksFilePath(parts) == parts.rest \in {<<>>, <<"/">>}

\* the package name expected for a package directory
RegistryName(pkg) ==
  CASE pkg = <<"@", "t", "s", "c", "i", "/", "a", ".", "b">> -> <<"@", "a", "/", "b">>
    [] pkg = <<"@", "t", "s", "c", "i", "/", "a", ".", "b", ".", "c">> -> <<"@", "a", "/", "b", ".", "c">>
    [] OTHER -> pkg

\* the file path expected in the download URL
DistOnce(rest) ==
  CASE rest = <<"/", "f">> -> <<"d", "i", "s", "t", "/", "f">>
    [] rest = <<"/", "d", "i", "s", "t", "/", "f">> -> <<"d", "i", "s", "t", "/", "f">>
    [] rest = <<"/", "d", "/", "f">> -> <<"d", "i", "s", "t", "/", "d", "/", "f">>
    [] rest = <<"/", "d", "i", "s", "t", "x">> -> <<"d", "i", "s", "t", "/", "d", "i", "s", "t", "x">>
    [] OTHER -> <<>>

\* the project base is an absolute URL
IsUrlBase(base) == base \notin {<<>>, BaseBad}

\* <base>/package_files/download
DownloadEndpoint(base) ==
  (IF EndsWith(base, <<"/">>) THEN SubSeq(base, 1, Len(base) - 1) ELSE base)
    \o <<"/">> \o PACKAGE_FILES_DOWNLOAD

ResolveCallEnded == fnArgs.fn = "resolveModelUrl" /\ fnPc \in {"returned", "threw"}

ExtractCallEnded ==
  fnArgs.fn = "extractPackageInfoFromNodeModulesPath" /\ fnPc = "returned"

\* C19: extractPackageInfoFromNodeModulesPath returns null exactly for the
\* paths that, once a leading "/" and a leading "./" are stripped, do not start
\* with node_modules/ or have no file path after the package name; for
\* @tsci/author.package the package name is @author/package, split at the
\* first dot only; any other package name is returned as written; the file
\* path is what follows the package directory.
C19_PackageInfoOfNodeModulesPath ==
  ExtractCallEnded =>
    LET parts == fnArgs.parts
    IN  IF ~ReferencesNodeModules(parts) \/ LacksFilePath(parts)
        THEN fnOut.info.isNull
        ELSE /\ ~fnOut.info.isNull
             /\ fnOut.info.packageName = RegistryName(parts.pkg)
             /\ fnOut.info.filePath = Tail(parts.rest)

\* C19 witness: /node_modules/@tsci/a.b.c/d/f gave the package @a/b.c and the
\* file path d/f.
C19_Witness ==
  /\ ExtractCallEnded
  /\ fnArgs.parts = Parts("path", <<"/">>, NODE_MODULES_DIR, <<"@", "t", "s", "c", "i", "/", "a", ".", "b", ".", "c">>, <<"/", "d", "/", "f">>)
  /\ fnOut.info = [isNull |-> FALSE, packageName |-> <<"@", "a", "/", "b", ".", "c">>, filePath |-> <<"d", "/", "f">>]

\* C20: for an empty list batchedUnion throws, whatever the batch size, and
\* never returns a geometry; for a list of one geometry it returns that
\* geometry; in both cases union() is never called.
C20_EmptyThrowsSingleReturned ==
  fnArgs.fn = "batchedUnion" =>
    /\ Len(fnArgs.geoms) = 0 =>
         fnPc \in {"ready", "threw"} /\ fnOut.value = <<>> /\ fnOut.unionCalls = 0
    /\ Len(fnArgs.geoms) = 1 =>
         /\ fnPc \in {"ready", "returned"}
         /\ fnPc = "returned" => fnOut.value = <<fnArgs.geoms[1]>>
         /\ fnOut.unionCalls = 0

\* C20 witness: batchedUnion of no geometry with batch size 1 has thrown.
C20_Witness ==
  /\ fnArgs.fn = "batchedUnion"
  /\ fnArgs.geoms = <<>>
  /\ fnArgs.batchSize = 1
  /\ fnPc = "threw"

\* the failed STEP loads of the conversion whose loadSTEP call was rejected
\* because the browser kernel initialisation ran out of WASM candidates
KernelInitFailures ==
  {k \in FailedCalls({"step"}) :
     /\ ~isNodeRuntime
     /\ req[ConvCaller].call = loaderLog[k].call
     /\ req[ConvCaller].error = "kernel"}

\* C21: a kernel initialisation error is fatal to the conversion: when the
\* loadSTEP call of a cad_component is rejected because every WASM candidate
\* failed, convertCircuitJsonTo3D rejects and the component gets no primitive.
C21_KernelInitErrorIsFatal ==
  \A k \in KernelInitFailures :
    /\ convPc = "rejected"
    /\ \A i \in CadBoxes : boxes[i].ref # loaderLog[k].cad

\* C22: mesh cache entries are removed only by clearSTEPCache: no step of a
\* loadSTEP call removes or replaces an existing entry; clearSTEPCache empties
\* the mesh cache and leaves the kernel promise cache as it is; and a call
\* returns without a fetch only when its key has an entry, so after a clear
\* the next call for any key fetches again.
C22_EntriesRemovedOnlyByClear ==
  [][/\ req' # req =>
          \A key \in DOMAIN stepCache :
            key \in DOMAIN stepCache' /\ stepCache'[key] = stepCache[key]
     /\ (req' = req /\ stepCache' # stepCache) =>
          /\ stepCache' = EmptyMap
          /\ occtModulePromiseByKey' = occtModulePromiseByKey
          /\ modulePromises' = modulePromises
     /\ \A r \in Callers :
          (req'[r].call # req[r].call /\ req'[r].pc = "returned") =>
            /\ req'[r].cacheKey \in DOMAIN stepCache
            /\ fetchLog' = fetchLog]_vars

CameraCallEnded == fnArgs.fn = "getBestCameraPosition" /\ fnPc = "returned"

\* the surface getBestCameraPosition looks at: the panel when there is one
CameraSurface == IF fnArgs.panel.present THEN fnArgs.panel ELSE fnArgs.board

\* square of the distance from the returned look-at point to the camera
CameraDistanceSquared ==
  LET camPos == fnOut.value[1].camPos
      lookAt == fnOut.value[1].lookAt
  IN  (camPos[1] - lookAt[1]) * (camPos[1] - lookAt[1])
        + (camPos[2] - lookAt[2]) * (camPos[2] - lookAt[2])
        + (camPos[3] - lookAt[3]) * (camPos[3] - lookAt[3])

\* the camera is 1 mm from the look-at point, up to the truncation of the
\* three coordinates
AtDistanceOne == CameraDistanceSquared >= 97 * 97 /\ CameraDistanceSquared <= 103 * 103

\* C23: for a board or panel of width 0 and height 0 getBestCameraPosition
\* returns a camera at distance 1 from the returned look-at point, which is
\* the centre of the surface.
C23_ZeroAreaDistanceIsOne ==
  (CameraCallEnded /\ CameraSurface.present
     /\ CameraSurface.width = 0 /\ CameraSurface.height = 0) =>
    /\ AtDistanceOne
    /\ fnOut.value[1].lookAt = <<0 - CameraSurface.center.x, 0, CameraSurface.center.y>>

\* the kernel initialisation for the key of caller r's request has completed
KernelReadyFor(r) ==
  \E p \in 1..Len(modulePromises) :
    /\ modulePromises[p].status = "resolved"
    /\ modulePromises[p].key = moduleCacheKey(req[r].projectBaseUrl, req[r].authHeaders,
                                              isNodeRuntime, browserOrigin)

\* C24: loadSTEP fetches the STEP file only after the kernel initialisation
\* for the request's key has completed: while a call's fetch is outstanding the
\* kernel for its key is initialised, and a call rejected by a failed kernel
\* initialisation has issued no fetch.
C24_KernelInitializedBeforeFetch ==
  \A r \in Callers :
    /\ req[r].pc = "fetching" => KernelReadyFor(r)
    /\ (req[r].pc = "rejected" /\ req[r].error = "kernel") =>
         \A k \in 1..Len(fetchLog) : fetchLog[k].call # req[r].call

\* the WASM fetches of kernel initialisation p, with the URL each one went to
WasmFetches(p) ==
  [k \in 1..Len(modulePromises[p].attempts) |->
     [url |-> modulePromises[p].wasmCandidates[modulePromises[p].attempts[k].candidate].url,
      headers |-> modulePromises[p].attempts[k].headers]]

\* the URLs of the origin-relative candidate and of the two CDN mirrors
UnauthenticatedWasmUrls ==
  {browserOrigin \o <<"/">> \o OCCT_WASM_MODULE_PATH,
   OCCT_WASM_CDN_URLS[1], OCCT_WASM_CDN_URLS[2]}

\* C25: in every kernel initialisation the fetch of the origin-relative
\* candidate and of the two CDN mirrors carries no auth headers; a fetch that
\* carries headers carries the caller's and goes to the URL resolved from the
\* project base, which is the first one fetched; and no URL is fetched twice.
C25_AuthHeadersOnlyForProjectCandidate ==
  \A p \in 1..Len(modulePromises) :
    LET fetches == WasmFetches(p)
    IN  /\ \A k \in 1..Len(fetches) :
             /\ fetches[k].url \in UnauthenticatedWasmUrls => fetches[k].headers = <<>>
             /\ fetches[k].headers # <<>> =>
                  /\ k = 1
                  /\ fetches[k].headers = modulePromises[p].authHeaders
                  /\ modulePromises[p].projectBaseUrl # <<>>
                  /\ StartsWith(fetches[k].url, modulePromises[p].projectBaseUrl)
        /\ \A j, k \in 1..Len(fetches) : j # k => fetches[j].url # fetches[k].url

\* C25 witness: an initialisation fetched the project-relative candidate with
\* the caller's headers, then the origin-relative one and a CDN mirror without
C25_Witness ==
  \E p \in 1..Len(modulePromises) :
    /\ Len(WasmFetches(p)) >= 3
    /\ WasmFetches(p)[1].headers = AuthAB
    /\ WasmFetches(p)[2].url = browserOrigin \o <<"/">> \o OCCT_WASM_MODULE_PATH
    /\ WasmFetches(p)[3].url = OCCT_WASM_CDN_URLS[1]
    /\ WasmFetches(p)[3].headers = <<>>

PanelMeshCallEnded == fnArgs.fn = "createPanelMesh" /\ fnPc = "returned"

\* C26: createPanelMesh combines the hole and cutout solids in bounded
\* batches: no call of the boolean kernel receives more than the default
\* batch size of subtraction operands, whatever the number of solids; the
\* solids are unioned first and the outline is cut by one subtract call.
C26_PanelSubtractionIsBatched ==
  PanelMeshCallEnded =>
    LET kernelCalls == fnOut.value[1].kernelCalls
    IN  /\ \A k \in 1..Len(kernelCalls) : kernelCalls[k].operands <= DEFAULT_BATCH_SIZE
        /\ fnArgs.holes + fnArgs.cutouts > 1 =>
             /\ \E k \in 1..Len(kernelCalls) : kernelCalls[k].operation = "union"
             /\ kernelCalls[Len(kernelCalls)] = [operation |-> "subtract", operands |-> 1]

OcctCallEnded == fnArgs.fn = "convertOcctResultToMesh" /\ fnPc = "returned"

\* the triangles of the kernel result, as pairs of sub-mesh and index
InputTriangles ==
  UNION {{<<m, t>> : t \in 0..(fnArgs.meshes[m].numTriangles - 1)} :
           m \in 1..Len(fnArgs.meshes)}

\* the colour the face ranges and the mesh colour give triangle t of sub-mesh
\* m, as bytes with alpha 1; <<>> for none
ExpectedColor(m, t) ==
  LET mesh == fnArgs.meshes[m]
      hits == {i \in 1..Len(mesh.brep_faces) :
                 /\ mesh.brep_faces[i].first <= t
                 /\ t <= mesh.brep_faces[i].last
                 /\ mesh.brep_faces[i].color # <<>>}
      bytes(c) == <<(c[1] * 255 + 500) \div 1000, (c[2] * 255 + 500) \div 1000,
                    (c[3] * 255 + 500) \div 1000, 1>>
  IN  IF hits # {}
      THEN bytes(mesh.brep_faces[CHOOSE i \in hits : \A j \in hits : i <= j].color)
      ELSE IF mesh.color # <<>> THEN bytes(mesh.color)
      ELSE <<>>

\* C27: every triangle of the kernel result is emitted once, with the colour
\* of the first face range that contains it and carries a colour, else the
\* mesh colour, else none.  When a triangle carries a colour the mesh has a
\* material table with one material per distinct colour, one more when
\* uncoloured triangles remain, every materialIndex names a material, a
\* coloured triangle's material has its colour, and two triangles share a
\* materialIndex exactly when they have the same colour; when no triangle
\* carries a colour the mesh has no material table.
C27_TrianglesColouredAndGrouped ==
  OcctCallEnded =>
    LET out == fnOut.value[1]
        T == 1..Len(out.triangles)
        colours == {out.triangles[k].color : k \in T}
    IN  /\ Len(out.triangles) = Cardinality(InputTriangles)
        /\ {<<out.triangles[k].mesh, out.triangles[k].index>> : k \in T} = InputTriangles
        /\ \A k \in T :
             out.triangles[k].color = ExpectedColor(out.triangles[k].mesh,
                                                    out.triangles[k].index)
        /\ out.hasMaterials = (colours \ {<<>>} # {})
        /\ out.hasMaterials =>
             /\ Len(out.materials) = Cardinality(colours)
             /\ \A k \in T :
                  /\ out.triangles[k].materialIndex \in 0..(Len(out.materials) - 1)
                  /\ out.triangles[k].color # <<>> =>
                       out.materials[out.triangles[k].materialIndex + 1].color
                         = out.triangles[k].color
             /\ \A j, k \in T :
                  (out.triangles[j].materialIndex = out.triangles[k].materialIndex)
                    = (out.triangles[j].color = out.triangles[k].color)
        /\ ~out.hasMaterials => out.materials = <<>>

\* C27 witness: a result with red, blue and uncoloured triangles was emitted
\* with three materials.
C27_Witness ==
  /\ OcctCallEnded
  /\ Len(fnOut.value[1].materials) = 3
  /\ \E j, k, l \in 1..Len(fnOut.value[1].triangles) :
       /\ fnOut.value[1].triangles[j].color = <<255, 0, 0, 1>>
       /\ fnOut.value[1].triangles[k].color = <<0, 0, 255, 1>>
       /\ fnOut.value[1].triangles[l].color = <<>>

\* a call of batchedUnion with a list that is not empty and a batch size of
\* one or more
BatchedUnionCall ==
  fnArgs.fn = "batchedUnion" /\ Len(fnArgs.geoms) >= 1 /\ fnArgs.batchSize >= 1

\* C28: batchedUnion terminates for every list that is not empty and every
\* batch size of one or more, and returns one geometry that combines every
\* input geometry; each pass of the loop leaves fewer geometries than it
\* found; every union call receives between 2 and batchSize operands.
C28_BatchedUnionTerminates ==
  /\ BatchedUnionCall ~>
       (fnArgs.fn = "batchedUnion" /\ fnPc = "returned"
          /\ fnOut.value = <<union(fnArgs.geoms)>>)
  /\ [][(BatchedUnionCall /\ fnOut'.passes # fnOut.passes) =>
          Len(fnOut'.results) < Len(fnOut.results)]_vars
  /\ [](BatchedUnionCall =>
          \A k \in 1..Len(fnOut.operands) :
            fnOut.operands[k] >= 2 /\ fnOut.operands[k] <= fnArgs.batchSize)

\* the coordinate transform a loader is given when the caller names none:
\* the one of the format it reads
TransformOfFormat(loader) ==
  CASE loader \in {"glb", "gltf"} -> NoTransform
    [] loader = "footprinter" -> "FOOTPRINTER_MODEL_TRANSFORM"
    [] loader = "obj" -> "OBJ_Z_UP_TO_Y_UP"
    [] OTHER -> "Z_UP_TO_Y_UP_USB_FIX"

\* the bottom-layer flip of a format: about Z for GLB, GLTF and footprinter
\* models, about X for the others
FlipOfFormat(loader) ==
  IF loader \in {"glb", "gltf", "footprinter"} THEN FlipAboutZ ELSE FlipAboutX

\* C29: for every primitive of a cad_component, the recorded meshUrl is the
\* source the invoked loader was given and the recorded meshType is the format
\* that loader reads, also when the record carries several URLs; without a
\* caller-supplied transform the loader is given the default transform of the
\* format it reads, and the flip of a bottom-layer component without rotation
\* is about the axis of that format.
C29_MeshFieldsFollowInvokedLoader ==
  \A i \in CadBoxes :
    \A k \in InvocationsFor(boxes[i].ref) :
      LET cad == circuitJson.cad_components[boxes[i].ref]
          loader == loaderLog[k].loader
      IN  /\ loader # "footprinter" =>
               /\ boxes[i].meshUrl = loaderLog[k].source
               /\ boxes[i].meshType = loader
          /\ options.coordinateTransform = NoTransform =>
               loaderLog[k].transform = TransformOfFormat(loader)
          /\ (~cad.rotation.given /\ isBottomLayer(cad)) =>
               boxes[i].rotation = FlipOfFormat(loader)

\* the fetches of the STEP file that the call of caller r issued
FetchesOfCall(r) == {k \in 1..Len(fetchLog) : fetchLog[k].call = req[r].call}

\* caller r got a mesh that another call fetched with other auth headers
MeshOfOtherHeaders(r) ==
  /\ req[r].pc = "returned"
  /\ req[r].mesh.call # req[r].call
  /\ HeaderSet(req[r].mesh.headers) # HeaderSet(req[r].authHeaders)

\* C30 as stated: a loadSTEP call is not given a mesh that an earlier call
\* fetched with auth headers other than its own, unless it performed its own
\* fetch with its own headers.
C30_NoMeshAcrossAuthHeaders ==
  \A r \in Callers :
    MeshOfOtherHeaders(r) =>
      \E k \in FetchesOfCall(r) : fetchLog[k].headers = req[r].authHeaders

\* C30 amended: the mesh cache is keyed by resolved URL and transform only. A
\* call made while its key is in the cache returns the cached mesh without a
\* fetch, whatever auth headers it supplies; a returned mesh is the one of the
\* call's cache key; a call that fetched returns the mesh it fetched with its
\* own headers, and a call that did not fetch returns a mesh another call
\* fetched for the same key.
C30_MeshCacheIgnoresAuthHeaders ==
  /\ [](\A r \in Callers :
          req[r].pc = "returned" =>
            /\ req[r].mesh.key = req[r].cacheKey
            /\ IF FetchesOfCall(r) # {}
               THEN /\ req[r].mesh.call = req[r].call
                    /\ req[r].mesh.headers = req[r].authHeaders
               ELSE /\ req[r].mesh.call # req[r].call
                    /\ \E k \in 1..Len(fetchLog) :
                         /\ fetchLog[k].call = req[r].mesh.call
                         /\ fetchLog[k].key = req[r].cacheKey
                         /\ fetchLog[k].headers = req[r].mesh.headers)
  /\ [][\A r \in Callers :
          (calls' = calls + 1 /\ req'[r].call = calls'
             /\ req'[r].cacheKey \in DOMAIN stepCache) =>
            /\ req'[r].pc = "returned"
            /\ req'[r].mesh = stepCache[req'[r].cacheKey]
            /\ fetchLog' = fetchLog]_vars

\* C30 witness: a call that supplied other auth headers than the call that
\* fetched the mesh has returned that mesh from the cache, without a fetch
C30_Witness ==
  \E r \in Callers : MeshOfOtherHeaders(r) /\ FetchesOfCall(r) = {}

====
